---- MODULE Spec2Model ----
(***************************************************************************)
(* Model of the threat prediction service (src/src/prediction/predictor.py)*)
(* and of the security event summarizer (src/src/ai_agent/summarizer.py).  *)
(*                                                                         *)
(* Confidence scores are floats in the source; here they are integers in   *)
(* hundredths (0.8 is 80), so every comparison against a threshold is      *)
(* exact.  Python dictionaries are functions whose DOMAIN is the set of    *)
(* keys that are present; dict.get(k, d) is Get(dict, k, d).               *)
(***************************************************************************)
EXTENDS Integers, Sequences, FiniteSets, TLC

VARIABLES predictor, monitor, agent, issued_ids, input, last, threads, heap

vars == <<predictor, monitor, agent, issued_ids, input, last, threads, heap>>

(***************************************************************************)
(* Bounds of the model.                                                    *)
(***************************************************************************)
\* longest threat_history the monitor is driven to
MaxHistory == 3
\* get_active_alerts is called with the limits -1..MaxLimit
MaxLimit == 2
\* determine_severity is probed with confidences -ConfOver..100+ConfOver
ConfOver == 10

(***************************************************************************)
(* Python helpers.                                                         *)
(***************************************************************************)
EmptyDict == [k \in {} |-> k]

Get(dict, key, default) == IF key \in DOMAIN dict THEN dict[key] ELSE default

Max(a, b) == IF a >= b THEN a ELSE b

Min(a, b) == IF a <= b THEN a ELSE b

\* s[start:] with Python's treatment of negative and out-of-range starts
PySliceFrom(s, start) ==
    LET n == Len(s)
        i == IF start < 0 THEN Max(n + start, 0) ELSE Min(start, n)
    IN  SubSeq(s, i + 1, n)

(***************************************************************************)
(* ThreatPredictor                                                         *)
(***************************************************************************)
\* ThreatPredictor.__init__: model is None unless a model path is given, and
\* then load_model has stored the loaded model
ThreatPredictor_init(model_path) ==
    [model            |-> IF model_path = "None" THEN "None" ELSE "loaded",
     threshold_high   |-> 80,
     threshold_medium |-> 50,
     threshold_low    |-> 30]

determine_severity_strict(self, confidence) ==
    IF confidence > self.threshold_high THEN "HIGH"
    ELSE IF confidence > self.threshold_medium THEN "MEDIUM"
    ELSE IF confidence > self.threshold_low THEN "LOW"
    ELSE "INFO"

determine_severity(self, confidence) ==
    IF confidence >= self.threshold_high THEN "HIGH"
    ELSE IF confidence >= self.threshold_medium THEN "MEDIUM"
    ELSE IF confidence >= self.threshold_low THEN "LOW"
    ELSE "INFO"

\* Outcomes of the external model on one row: predict/predict_proba either
\* raise or give a label and the probability of the threat class.  The two
\* calls are independent, so every (label, confidence) pair can occur.
ConfSamples == {15, 65, 92}

ClassifierOutcomes ==
    {[raises |-> TRUE, prediction |-> FALSE, confidence |-> 0]} \cup
    {[raises |-> FALSE, prediction |-> p, confidence |-> c] :
        p \in BOOLEAN, c \in ConfSamples}

\* datetime.now() is the local wall clock: any reading can follow any other,
\* equal, later or earlier; two readings are enough for each of these
Timestamps == {0, 1}

\* predict_single(data); clf is what the model does with the row and now
\* is the clock reading taken while the result is built
predict_single(self, data, clf, now) ==
    IF self.model = "None"
    THEN [status |-> "raise", ret |-> "ValueError: Model not loaded"]
    ELSE IF clf.raises
    THEN [status |-> "raise", ret |-> "model error"]
    ELSE [status |-> "ok",
          ret |-> [is_threat  |-> clf.prediction,
                   confidence |-> clf.confidence,
                   severity   |-> determine_severity(self, clf.confidence),
                   timestamp  |-> now,
                   input_data |-> data]]

(***************************************************************************)
(* RealTimeThreatMonitor                                                   *)
(***************************************************************************)
RealTimeThreatMonitor_init == [alert_queue |-> <<>>, threat_history |-> <<>>]

\* ThreatSummaryAgent.__init__; its summarizer never changes and is the
\* constant SecurityEventSummarizer_init
ThreatSummaryAgent_init == [event_history |-> <<>>]

\* f"{confidence:.2%}": a confidence of c hundredths prints as "c.00%"
FormatPercent2(confidence) == [whole |-> confidence, decimals |-> <<0, 0>>]

\* the alert dictionary built at lines 267-275
MakeAlert(self, result, traffic_data) ==
    [alert_id       |-> Len(self.alert_queue) + 1,
     severity       |-> result.severity,
     confidence     |-> result.confidence,
     source_ip      |-> Get(traffic_data, "source_ip", "unknown"),
     destination_ip |-> Get(traffic_data, "destination_ip", "unknown"),
     timestamp      |-> result.timestamp,
     message        |-> <<result.severity, "severity threat detected with",
                          FormatPercent2(result.confidence), "confidence">>]

\* variants of process_traffic with a plausible slip each: an alert for every
\* threat whatever its severity; the event logged before the classifier has
\* answered; the alert put at the head of the queue
process_traffic_any_threat(self, pred, traffic_data, clf, now) ==
    LET p == predict_single(pred, traffic_data, clf, now) IN
    IF p.status = "raise"
    THEN [self |-> self, status |-> "raise", ret |-> p.ret]
    ELSE LET result == p.ret
             hist   == Append(self.threat_history, result)
         IN  IF result.is_threat
             THEN [self   |-> [alert_queue |->
                                  Append(self.alert_queue,
                                         MakeAlert(self, result, traffic_data)),
                               threat_history |-> hist],
                   status |-> "ok", ret |-> result]
             ELSE [self   |-> [alert_queue |-> self.alert_queue,
                               threat_history |-> hist],
                   status |-> "ok", ret |-> result]

process_traffic_log_first(self, pred, traffic_data, clf, now) ==
    LET p == predict_single(pred, traffic_data, clf, now) IN
    IF p.status = "raise"
    THEN [self   |-> [alert_queue |-> self.alert_queue,
                      threat_history |->
                          Append(self.threat_history,
                                 [is_threat |-> FALSE, confidence |-> 0,
                                  severity |-> "INFO", timestamp |-> now,
                                  input_data |-> traffic_data])],
          status |-> "raise", ret |-> p.ret]
    ELSE LET result == p.ret
             hist   == Append(self.threat_history, result)
         IN  IF result.is_threat /\ result.severity \in {"HIGH", "MEDIUM"}
             THEN [self   |-> [alert_queue |->
                                  Append(self.alert_queue,
                                         MakeAlert(self, result, traffic_data)),
                               threat_history |-> hist],
                   status |-> "ok", ret |-> result]
             ELSE [self   |-> [alert_queue |-> self.alert_queue,
                               threat_history |-> hist],
                   status |-> "ok", ret |-> result]

process_traffic_prepend(self, pred, traffic_data, clf, now) ==
    LET p == predict_single(pred, traffic_data, clf, now) IN
    IF p.status = "raise"
    THEN [self |-> self, status |-> "raise", ret |-> p.ret]
    ELSE LET result == p.ret
             hist   == Append(self.threat_history, result)
         IN  IF result.is_threat /\ result.severity \in {"HIGH", "MEDIUM"}
             THEN [self   |-> [alert_queue |->
                                  <<MakeAlert(self, result, traffic_data)>>
                                      \o self.alert_queue,
                               threat_history |-> hist],
                   status |-> "ok", ret |-> result]
             ELSE [self   |-> [alert_queue |-> self.alert_queue,
                               threat_history |-> hist],
                   status |-> "ok", ret |-> result]

\* a process_traffic that brings the stored severities up to date with the
\* current thresholds at every ingest
process_traffic_reclassify(self, pred, traffic_data, clf, now) ==
    LET p == predict_single(pred, traffic_data, clf, now) IN
    IF p.status = "raise"
    THEN [self |-> self, status |-> "raise", ret |-> p.ret]
    ELSE LET result == p.ret
             hist   == Append([i \in 1..Len(self.threat_history) |->
                                 [self.threat_history[i] EXCEPT !.severity =
                                     determine_severity(pred,
                                        self.threat_history[i].confidence)]],
                              result)
         IN  IF result.is_threat /\ result.severity \in {"HIGH", "MEDIUM"}
             THEN [self   |-> [alert_queue |->
                                  Append(self.alert_queue,
                                         MakeAlert(self, result, traffic_data)),
                               threat_history |-> hist],
                   status |-> "ok", ret |-> result]
             ELSE [self   |-> [alert_queue |-> self.alert_queue,
                               threat_history |-> hist],
                   status |-> "ok", ret |-> result]

\* process_traffic applied to the monitor `self`; the value is the monitor
\* after the call together with what the call returned or raised
process_traffic(self, pred, traffic_data, clf, now) ==
    LET p == predict_single(pred, traffic_data, clf, now) IN
    IF p.status = "raise"
    THEN [self |-> self, status |-> "raise", ret |-> p.ret]
    ELSE LET result == p.ret
             hist   == Append(self.threat_history, result)
         IN  IF result.is_threat /\ result.severity \in {"HIGH", "MEDIUM"}
             THEN [self   |-> [alert_queue |->
                                  Append(self.alert_queue,
                                         MakeAlert(self, result, traffic_data)),
                               threat_history |-> hist],
                   status |-> "ok", ret |-> result]
             ELSE [self   |-> [alert_queue |-> self.alert_queue,
                               threat_history |-> hist],
                   status |-> "ok", ret |-> result]

\* a get_active_alerts that hands the alerts over and drops them
get_active_alerts_drain(self, limit) ==
    [self   |-> [alert_queue |-> <<>>, threat_history |-> self.threat_history],
     status |-> "ok",
     ret    |-> PySliceFrom(self.alert_queue, 0 - limit)]

get_active_alerts(self, limit) ==
    [self |-> self, status |-> "ok",
     ret  |-> PySliceFrom(self.alert_queue, 0 - limit)]

\* a clear_alerts that resets the whole monitor
clear_alerts_all(self) ==
    [self   |-> [alert_queue |-> <<>>, threat_history |-> <<>>],
     status |-> "ok"]

clear_alerts(self) ==
    [self   |-> [alert_queue |-> <<>>, threat_history |-> self.threat_history],
     status |-> "ok"]

\* len([p for p in predictions if p['is_threat']])
CountThreats(seq) == Cardinality({i \in 1..Len(seq) : seq[i].is_threat})

\* severity_counts[s] after the counting loop
CountSeverity(seq, s) == Cardinality({i \in 1..Len(seq) : seq[i].severity = s})

RECURSIVE SumConfidence(_)
SumConfidence(seq) ==
    IF seq = <<>> THEN 0 ELSE Head(seq).confidence + SumConfidence(Tail(seq))

\* an analyze_threats that tallies the severities of the threats only
analyze_threats_threat_severities(self, predictions) ==
    LET total        == Len(predictions)
        threat_count == CountThreats(predictions)
        severity_counts ==
            [s \in {"HIGH", "MEDIUM", "LOW", "INFO"} |->
                Cardinality({i \in 1..Len(predictions) :
                                predictions[i].is_threat /\
                                predictions[i].severity = s})]
    IN  [total_analyzed        |-> total,
         threat_count          |-> threat_count,
         benign_count          |-> total - threat_count,
         threat_rate           |-> IF total > 0
                                   THEN [num |-> threat_count, den |-> total]
                                   ELSE [num |-> 0, den |-> 1],
         average_confidence    |-> IF total > 0
                                   THEN [num |-> SumConfidence(predictions),
                                         den |-> total]
                                   ELSE [num |-> 0, den |-> 0],
         severity_distribution |-> severity_counts,
         high_severity_threats |-> severity_counts["HIGH"]]

\* ThreatPredictor.analyze_threats.  Quotients are kept as exact fractions
\* [num, den]; np.mean of an empty list is nan (a warning, not an error).
\* The summary's own timestamp is left out.
analyze_threats(self, predictions) ==
    LET total        == Len(predictions)
        threat_count == CountThreats(predictions)
        severity_counts ==
            [s \in {"HIGH", "MEDIUM", "LOW", "INFO"} |->
                CountSeverity(predictions, s)]
    IN  [total_analyzed        |-> total,
         threat_count          |-> threat_count,
         benign_count          |-> total - threat_count,
         threat_rate           |-> IF total > 0
                                   THEN [num |-> threat_count, den |-> total]
                                   ELSE [num |-> 0, den |-> 1],
         average_confidence    |-> IF total > 0
                                   THEN [num |-> SumConfidence(predictions),
                                         den |-> total]
                                   ELSE [num |-> 0, den |-> 0],
         severity_distribution |-> severity_counts,
         high_severity_threats |-> severity_counts["HIGH"]]

get_threat_statistics(self, pred) ==
    [self |-> self, status |-> "ok",
     ret  |-> analyze_threats(pred, self.threat_history)]

\* load_model: joblib.load either stores the model or raises and leaves
\* self.model as it was
load_model(self, loads) ==
    IF loads THEN [self |-> [self EXCEPT !.model = "loaded"], status |-> "ok"]
    ELSE [self |-> self, status |-> "raise"]

(***************************************************************************)
(* The monitor as a state machine: one action per call of a method, the     *)
(* way the API handlers of src/api/app.py call them one request at a time.  *)
(* `last` records the latest call, its arguments and its outcome;           *)
(* issued_ids is a history variable listing the alert_id of every alert     *)
(* created so far, in creation order.                                       *)
(***************************************************************************)
\* A call with no arguments records EmptyDict, and so does a call that
\* returns None; other values are recorded under a key naming what they are.
\* the methods are called one at a time here: no request thread is running,
\* and the lists are the ones the monitor holds
NoThreads == <<>>

NoHeap == <<>>

NoCall == [op |-> "none", args |-> EmptyDict, status |-> "none", ret |-> EmptyDict]

\* traffic records handed to the monitor: with and without the address keys
TrafficSamples ==
    {[source_ip |-> "192.168.1.100", destination_ip |-> "10.0.0.5",
      destination_port |-> 22, protocol |-> "TCP"]}

\* the limit is whatever integer the request carries; -1 stands for the
\* negative ones
Limits == (0 - 1)..MaxLimit

Init ==
    /\ predictor \in {ThreatPredictor_init("None"), ThreatPredictor_init("model.pkl")}
    /\ monitor = RealTimeThreatMonitor_init
    /\ agent = ThreatSummaryAgent_init
    /\ issued_ids = <<>>
    /\ threads = NoThreads
    /\ heap = NoHeap
    /\ input = "none"
    /\ last = NoCall

LoadModel ==
    /\ \E loads \in BOOLEAN :
          LET r == load_model(predictor, loads) IN
          /\ predictor' = r.self
          /\ last' = [op |-> "load_model", args |-> EmptyDict,
                      status |-> r.status, ret |-> EmptyDict]
    /\ UNCHANGED <<monitor, agent, issued_ids, input, threads, heap>>

ProcessTraffic ==
    /\ Len(monitor.threat_history) < MaxHistory
    /\ \E data \in TrafficSamples, clf \in ClassifierOutcomes, now \in Timestamps :
          LET r == process_traffic(monitor, predictor, data, clf, now) IN
          /\ monitor' = r.self
          /\ issued_ids' =
                IF Len(r.self.alert_queue) > Len(monitor.alert_queue)
                THEN Append(issued_ids,
                            r.self.alert_queue[Len(r.self.alert_queue)].alert_id)
                ELSE issued_ids
          /\ last' = [op |-> "process_traffic",
                      args |-> [traffic_data |-> data, clf |-> clf],
                      status |-> r.status,
                      ret |-> IF r.status = "ok" THEN [result |-> r.ret]
                              ELSE [error |-> r.ret]]
    /\ UNCHANGED <<predictor, agent, input, threads, heap>>

GetActiveAlerts ==
    /\ \E limit \in Limits :
          LET r == get_active_alerts(monitor, limit) IN
          /\ monitor' = r.self
          /\ last' = [op |-> "get_active_alerts", args |-> [limit |-> limit],
                      status |-> r.status, ret |-> [alerts |-> r.ret]]
    /\ UNCHANGED <<predictor, agent, issued_ids, input, threads, heap>>

ClearAlerts ==
    /\ LET r == clear_alerts(monitor) IN
          /\ monitor' = r.self
          /\ last' = [op |-> "clear_alerts", args |-> EmptyDict,
                      status |-> r.status, ret |-> EmptyDict]
    /\ UNCHANGED <<predictor, agent, issued_ids, input, threads, heap>>

GetThreatStatistics ==
    /\ LET r == get_threat_statistics(monitor, predictor) IN
          /\ monitor' = r.self
          /\ last' = [op |-> "get_threat_statistics", args |-> EmptyDict,
                      status |-> r.status, ret |-> [summary |-> r.ret]]
    /\ UNCHANGED <<predictor, agent, issued_ids, input, threads, heap>>

Next ==
    \/ LoadModel
    \/ ProcessTraffic
    \/ GetActiveAlerts
    \/ ClearAlerts
    \/ GetThreatStatistics

Spec == Init /\ [][Next]_vars

TypeOK ==
    /\ Len(monitor.threat_history) <= MaxHistory
    /\ Len(monitor.alert_queue) <= Len(monitor.threat_history)

(***************************************************************************)
(* Properties of the monitor, checked under Spec.                          *)
(***************************************************************************)
Alerting(result) == result.is_threat /\ result.severity \in {"HIGH", "MEDIUM"}

C2_IngestAtomicOnClassifierFailure ==
    [][ (last'.op = "process_traffic" /\
         (predictor.model = "None" \/ last'.args.clf.raises)) =>
          /\ last'.status = "raise"
          /\ monitor'.threat_history = monitor.threat_history
          /\ monitor'.alert_queue = monitor.alert_queue ]_vars

C2_Witness ==
    /\ last.op = "process_traffic" /\ last.status = "raise"
    /\ predictor.model = "loaded"
    /\ Len(monitor.threat_history) = 2
    /\ Len(monitor.alert_queue) = 1

\* C4: clear_alerts leaves the alert queue empty and threat_history as it was.
C4_ClearAlertsKeepsHistory ==
    [][ last'.op = "clear_alerts" =>
          /\ monitor'.alert_queue = <<>>
          /\ monitor'.threat_history = monitor.threat_history ]_vars

C4_Witness ==
    /\ last.op = "clear_alerts"
    /\ Len(monitor.threat_history) = 2
    /\ Len(issued_ids) = 2
    /\ monitor.alert_queue = <<>>

\* C5: for every limit >= 0, get_active_alerts(limit) returns the last
\* min(limit, len(queue)) alerts in queue order, so never more than limit.
C5_LastLimitAlerts ==
    [][ (last'.op = "get_active_alerts" /\ last'.args.limit >= 0) =>
          LET q == monitor.alert_queue
              k == Min(last'.args.limit, Len(q))
          IN  /\ last'.ret.alerts = SubSeq(q, Len(q) - k + 1, Len(q))
              /\ Len(last'.ret.alerts) <= last'.args.limit ]_vars

\* C6: get_active_alerts changes neither alert_queue nor threat_history, and
\* a second call with the same limit right after the first returns the same.
C6_GetActiveAlertsReadOnly ==
    [][ last'.op = "get_active_alerts" =>
          /\ monitor' = monitor
          /\ (last.op = "get_active_alerts" /\ last.args = last'.args)
                => last'.ret = last.ret ]_vars

C6_Witness ==
    /\ last.op = "get_active_alerts"
    /\ last.args.limit = 1
    /\ Len(monitor.alert_queue) = 2
    /\ last.ret.alerts = <<monitor.alert_queue[2]>>

\* C7: alert ids are strictly increasing in creation order, so no id is
\* assigned twice, also across clear_alerts.
C7_AlertIdsStrictlyIncreasing ==
    \A i, j \in DOMAIN issued_ids : i < j => issued_ids[i] < issued_ids[j]

\* an alert and the event it was made from
AlertOf(alert, event) ==
    /\ Alerting(event)
    /\ alert.severity = event.severity
    /\ alert.confidence = event.confidence
    /\ alert.timestamp = event.timestamp

\* the alerts of q can be matched, in order, to distinct events of h
RECURSIVE Embeds(_, _)
Embeds(q, h) ==
    IF q = <<>> THEN TRUE
    ELSE IF h = <<>> THEN FALSE
    ELSE IF AlertOf(Head(q), Head(h)) THEN Embeds(Tail(q), Tail(h))
    ELSE Embeds(q, Tail(h))

\* C8: the alert queue is a subsequence of history: its alerts match, in
\* queue order, distinct HIGH or MEDIUM threat events of threat_history with
\* the same severity, confidence and timestamp.
C8_QueueSubsequenceOfHistory ==
    Embeds(monitor.alert_queue, monitor.threat_history)

C8_Witness ==
    /\ Len(monitor.threat_history) = 3
    /\ Len(monitor.alert_queue) = 1
    /\ Len(issued_ids) = 2
    /\ AlertOf(monitor.alert_queue[1], monitor.threat_history[3])
    /\ ~ Alerting(monitor.threat_history[2])

(***************************************************************************)
(* determine_severity as a pure function: the confidence is drawn at the    *)
(* start from a range that reaches past both ends of [0, 1], and the        *)
(* predictor is a freshly constructed one (default thresholds).             *)
(***************************************************************************)
ConfRange == (0 - ConfOver)..(100 + ConfOver)

InitSeverity ==
    /\ predictor \in {ThreatPredictor_init("None"), ThreatPredictor_init("model.pkl")}
    /\ monitor = RealTimeThreatMonitor_init
    /\ agent = ThreatSummaryAgent_init
    /\ issued_ids = <<>>
    /\ threads = NoThreads
    /\ heap = NoHeap
    /\ input \in ConfRange
    /\ last = NoCall

DetermineSeverity ==
    /\ last' = [op |-> "determine_severity", args |-> [confidence |-> input],
                status |-> "ok",
                ret |-> [severity |-> determine_severity(predictor, input)]]
    /\ UNCHANGED <<predictor, monitor, agent, issued_ids, input, threads, heap>>

NextSeverity == DetermineSeverity

SpecSeverity == InitSeverity /\ [][NextSeverity]_vars

\* C3: with the default thresholds determine_severity(c) is HIGH iff
\* c >= 0.8, MEDIUM iff 0.5 <= c < 0.8, LOW iff 0.3 <= c < 0.5 and INFO iff
\* c < 0.3 (confidences in hundredths).
C3_SeverityBands ==
    last.op = "determine_severity" =>
        LET c == last.args.confidence
            s == last.ret.severity
        IN  /\ (s = "HIGH")   <=> (c >= 80)
            /\ (s = "MEDIUM") <=> (50 <= c /\ c < 80)
            /\ (s = "LOW")    <=> (30 <= c /\ c < 50)
            /\ (s = "INFO")   <=> (c < 30)

C3_Witness ==
    /\ last.op = "determine_severity"
    /\ last.args.confidence = 80
    /\ last.ret.severity = "HIGH"

(***************************************************************************)
(* SecurityEventSummarizer                                                  *)
(***************************************************************************)
SecurityEventSummarizer_init ==
    [attack_types |->
        [k \in {"DDoS", "SQL Injection", "XSS", "Port Scan", "Brute Force",
                "Malware", "Phishing", "MITM", "Ransomware", "Zero-Day"} |->
            CASE k = "DDoS"          -> "Distributed Denial of Service"
              [] k = "SQL Injection" -> "Database Attack"
              [] k = "XSS"           -> "Cross-Site Scripting"
              [] k = "Port Scan"     -> "Network Reconnaissance"
              [] k = "Brute Force"   -> "Password Attack"
              [] k = "Malware"       -> "Malicious Software"
              [] k = "Phishing"      -> "Social Engineering Attack"
              [] k = "MITM"          -> "Man-in-the-Middle Attack"
              [] k = "Ransomware"    -> "Data Encryption Attack"
              [] k = "Zero-Day"      -> "Unknown Vulnerability Exploit"],
     severity_descriptions |->
        [k \in {"HIGH", "MEDIUM", "LOW", "INFO"} |->
            CASE k = "HIGH" ->
                    [urgency |-> "CRITICAL - Immediate action required",
                     impact |-> "High risk to system security",
                     recommendation |-> "Block source and investigate immediately"]
              [] k = "MEDIUM" ->
                    [urgency |-> "WARNING - Action required soon",
                     impact |-> "Moderate risk to system security",
                     recommendation |-> "Monitor closely and prepare response"]
              [] k = "LOW" ->
                    [urgency |-> "ADVISORY - Monitor situation",
                     impact |-> "Low risk to system security",
                     recommendation |-> "Log for analysis and watch for patterns"]
              [] k = "INFO" ->
                    [urgency |-> "INFORMATIONAL - No immediate action needed",
                     impact |-> "Minimal or no security impact",
                     recommendation |-> "Keep for historical analysis"]]]

\* A tcp_flags value is a Python object: a string, given by the flag names
\* that occur in it ('' has none), or something that is not a string.
PyStr(parts) == [type |-> "str", parts |-> parts]

PyList(parts) == [type |-> "list", parts |-> parts]

\* A protocol value is a Python object too.  Strings stand for themselves;
\* "<int 6>" stands for the integer 6 (the IP protocol number of TCP), which
\* is not a string and has no upper() method.
NotAString == {"<int 6>"}

\* str.upper() on the protocol names that occur
Upper(str) ==
    CASE str = "tcp" -> "TCP"
      [] str = "udp" -> "UDP"
      [] str = "icmp" -> "ICMP"
      [] OTHER -> str

\* an _infer_attack_type that indexes data['tcp_flags'] instead of using
\* data.get: a record without the key raises KeyError
_infer_attack_type_indexing(self, data) ==
    IF "tcp_flags" \notin DOMAIN data
    THEN [status |-> "raise", ret |-> "KeyError"]
    ELSE
    LET dest_port   == Get(data, "destination_port", 0)
        packet_size == Get(data, "packet_size", 0)
        tcp_flags   == data["tcp_flags"]
    IN  [status |-> "ok",
         ret |->
            IF tcp_flags.type = "str" /\ "SYN" \in tcp_flags.parts /\ dest_port > 1024
            THEN "Port Scan"
            ELSE IF dest_port \in {3306, 5432, 1433}
            THEN "Potential SQL Injection"
            ELSE IF dest_port \in {80, 443, 8080, 8443}
            THEN "Potential Web Attack (XSS/Injection)"
            ELSE IF dest_port = 22
            THEN "Potential SSH Brute Force"
            ELSE IF dest_port = 3389
            THEN "Potential RDP Attack"
            ELSE IF packet_size > 1400
            THEN "Potential DDoS/Flooding"
            ELSE "Suspicious Network Activity"]

\* _infer_attack_type: the rules are tried in the order of the source and the
\* first that matches gives the label; protocol is read and upper-cased but
\* no rule looks at it, so all it can do is raise when the value has no
\* upper()
_infer_attack_type(self, data) ==
    IF Get(data, "protocol", "") \in NotAString
    THEN [status |-> "raise", ret |-> "AttributeError"]
    ELSE
    LET dest_port   == Get(data, "destination_port", 0)
        protocol    == Upper(Get(data, "protocol", ""))
        packet_size == Get(data, "packet_size", 0)
        tcp_flags   == Get(data, "tcp_flags", PyStr({}))
    IN  [status |-> "ok",
         ret |->
            IF tcp_flags.type = "str" /\ "SYN" \in tcp_flags.parts /\ dest_port > 1024
            THEN "Port Scan"
            ELSE IF dest_port \in {3306, 5432, 1433}
            THEN "Potential SQL Injection"
            ELSE IF dest_port \in {80, 443, 8080, 8443}
            THEN "Potential Web Attack (XSS/Injection)"
            ELSE IF dest_port = 22
            THEN "Potential SSH Brute Force"
            ELSE IF dest_port = 3389
            THEN "Potential RDP Attack"
            ELSE IF packet_size > 1400
            THEN "Potential DDoS/Flooding"
            ELSE "Suspicious Network Activity"]

\* f"{confidence:.1%}": a confidence of c hundredths prints as "c.0%"
FormatPercent1(confidence) == [whole |-> confidence, decimals |-> <<0>>]

\* str() of a value that is an int when the key is present and the string
\* 'unknown' when it is not
FormatOr(data, key, default) ==
    IF key \in DOMAIN data THEN [int |-> data[key]] ELSE [str |-> default]

\* _generate_threat_summary; the description is kept as the values that are
\* formatted into its sentences
_generate_threat_summary(self, data, confidence, severity) ==
    LET source_ip == Get(data, "source_ip", "unknown")
        dest_ip   == Get(data, "destination_ip", "unknown")
        protocol  == Get(data, "protocol", "unknown")
        dest_port == FormatOr(data, "destination_port", "unknown")
        inferred  == _infer_attack_type(self, data)
    IN  IF inferred.status = "raise"
        THEN [status |-> "raise", ret |-> inferred.ret]
        ELSE
        LET attack_type   == inferred.ret
            severity_info == Get(self.severity_descriptions, severity, EmptyDict)
        IN  [status |-> "ok",
             ret |->
                [title |-> <<"Security Threat Detected -", severity, "Severity">>,
                 description |->
                    [confidence  |-> FormatPercent1(confidence),
                     source_ip   |-> source_ip,
                     dest_ip     |-> dest_ip,
                     dest_port   |-> dest_port,
                     protocol    |-> protocol,
                     consistent_with |-> IF attack_type # "" THEN <<attack_type>>
                                         ELSE <<>>],
                 urgency |-> Get(severity_info, "urgency", "Unknown urgency"),
                 impact  |-> Get(severity_info, "impact", "Unknown impact"),
                 source  |-> source_ip,
                 target  |-> dest_ip,
                 attack_type |-> IF attack_type # "" THEN attack_type ELSE "Unknown",
                 confidence_level |-> FormatPercent1(confidence)]]

(***************************************************************************)
(* Attack-type inference as a pure function: the traffic record is drawn at *)
(* the start, every field present or absent, and the summarizer is applied  *)
(* to it directly and through _generate_threat_summary.                     *)
(***************************************************************************)
PortSamples == {22, 80, 443, 445, 1024, 1025, 1433, 3306, 3389, 5432, 8080,
                8443, 27017, 50000}

ProtocolSamples == {"TCP", "UDP", "ICMP", "tcp", "other"}

PacketSizeSamples == {50, 64, 1400, 1401, 5001}

TcpFlagsSamples == {PyStr({}), PyStr({"SYN"}), PyStr({"ACK"}),
                    PyStr({"SYN", "ACK"}), PyStr({"FIN"}), PyList({"SYN"})}

\* the dictionaries with at most the key `key`, holding one of `values`
OptionalField(key, values) == {EmptyDict} \cup {key :> v : v \in values}

InferInputs ==
    {a @@ b @@ c @@ d :
        a \in OptionalField("destination_port", PortSamples),
        b \in OptionalField("protocol", ProtocolSamples),
        c \in OptionalField("packet_size", PacketSizeSamples),
        d \in OptionalField("tcp_flags", TcpFlagsSamples)}

Severities == {"HIGH", "MEDIUM", "LOW", "INFO"}

InitInfer ==
    /\ predictor = ThreatPredictor_init("None")
    /\ monitor = RealTimeThreatMonitor_init
    /\ agent = ThreatSummaryAgent_init
    /\ issued_ids = <<>>
    /\ threads = NoThreads
    /\ heap = NoHeap
    /\ input \in InferInputs
    /\ last = NoCall

InferAttackType ==
    /\ LET r == _infer_attack_type(SecurityEventSummarizer_init, input) IN
          last' = [op |-> "_infer_attack_type", args |-> [data |-> input],
                   status |-> r.status,
                   ret |-> IF r.status = "ok" THEN [attack_type |-> r.ret]
                           ELSE [error |-> r.ret]]
    /\ UNCHANGED <<predictor, monitor, agent, issued_ids, input, threads, heap>>

GenerateThreatSummary ==
    /\ \E confidence \in ConfSamples :
          LET severity == determine_severity(predictor, confidence)
              r == _generate_threat_summary(SecurityEventSummarizer_init,
                                            input, confidence, severity)
          IN  last' = [op |-> "_generate_threat_summary",
                       args |-> [data |-> input, confidence |-> confidence,
                                 severity |-> severity],
                       status |-> r.status,
                       ret |-> IF r.status = "ok" THEN [summary |-> r.ret]
                               ELSE [error |-> r.ret]]
    /\ UNCHANGED <<predictor, monitor, agent, issued_ids, input, threads, heap>>

NextInfer == InferAttackType \/ GenerateThreatSummary

SpecInfer == InitInfer /\ [][NextInfer]_vars

\* the attack category that each label of the summarizer stands for
AttackTypeOf(label) ==
    CASE label = "Port Scan" -> "PortScan"
      [] label = "Potential SQL Injection" -> "SqlInjection"
      [] label = "Potential Web Attack (XSS/Injection)" -> "WebAttack"
      [] label = "Potential SSH Brute Force" -> "BruteForce"
      [] label = "Potential RDP Attack" -> "BruteForce"
      [] label = "Potential DDoS/Flooding" -> "DDoS"
      [] label = "Suspicious Network Activity" -> "Unknown"
      [] OTHER -> "none"

AttackLabels == {"Port Scan", "Potential SQL Injection",
                 "Potential Web Attack (XSS/Injection)",
                 "Potential SSH Brute Force", "Potential RDP Attack",
                 "Potential DDoS/Flooding", "Suspicious Network Activity"}

\* the flags of the record are a string in which SYN occurs
HasSyn(data) ==
    /\ "tcp_flags" \in DOMAIN data
    /\ data["tcp_flags"].type = "str"
    /\ "SYN" \in data["tcp_flags"].parts

\* C9: for attributes whose tcp flags contain SYN the inferred type is the
\* port scan, whatever the destination port (port 22 with SYN is a port
\* scan, not a brute force).
C9_SynIsPortScanOnAnyPort ==
    (last.op = "_infer_attack_type" /\ HasSyn(last.args.data)) =>
        /\ last.status = "ok"
        /\ AttackTypeOf(last.ret.attack_type) = "PortScan"

\* no rule of _infer_attack_type applies to the record
NoRuleMatches(data) ==
    LET port == IF "destination_port" \in DOMAIN data
                THEN data["destination_port"] ELSE 0
        size == IF "packet_size" \in DOMAIN data THEN data["packet_size"] ELSE 0
    IN  /\ ~ (HasSyn(data) /\ port > 1024)
        /\ port \notin {3306, 5432, 1433, 80, 443, 8080, 8443, 22, 3389}
        /\ size <= 1400

\* the attack type a recorded call came to
InferredBy(call) ==
    IF call.op = "_infer_attack_type" THEN call.ret.attack_type
    ELSE call.ret.summary.attack_type

_generate_benign_summary_raw(self, data, confidence) ==
    LET source_ip == Get(data, "source_ip", "unknown")
        dest_ip   == Get(data, "destination_ip", "unknown")
        protocol  == Get(data, "protocol", "unknown")
    IN  [title |-> <<"Normal Network Activity">>,
         description |-> [source_ip |-> source_ip, dest_ip |-> dest_ip,
                          protocol |-> protocol,
                          normal_confidence |-> FormatPercent1(confidence)],
         urgency |-> "NONE - Normal traffic",
         impact  |-> "No security impact",
         source  |-> source_ip,
         target  |-> dest_ip,
         attack_type |-> "N/A - Benign Traffic",
         confidence_level |-> [percent |-> FormatPercent1(confidence),
                               suffix |-> "(benign)"]]

\* _generate_benign_summary: 1 - confidence is 100 - c in hundredths
_generate_benign_summary(self, data, confidence) ==
    LET source_ip == Get(data, "source_ip", "unknown")
        dest_ip   == Get(data, "destination_ip", "unknown")
        protocol  == Get(data, "protocol", "unknown")
    IN  [title |-> <<"Normal Network Activity">>,
         description |-> [source_ip |-> source_ip, dest_ip |-> dest_ip,
                          protocol |-> protocol,
                          normal_confidence |-> FormatPercent1(100 - confidence)],
         urgency |-> "NONE - Normal traffic",
         impact  |-> "No security impact",
         source  |-> source_ip,
         target  |-> dest_ip,
         attack_type |-> "N/A - Benign Traffic",
         confidence_level |-> [percent |-> FormatPercent1(100 - confidence),
                               suffix |-> "(benign)"]]

\* One recommendation line: its text, with a {name} where an f-string puts a
\* value, and the values put there in order
Line(text, args) == [text |-> text, args |-> args]

\* the lists of _generate_recommendations, lines 220-224 and 230-259
BenignLines ==
    <<Line("Continue normal monitoring", <<>>),
      Line("No action required at this time", <<>>),
      Line("Log event for historical analysis", <<>>)>>

HighLines(source_ip, destination_ip) ==
    <<Line("IMMEDIATELY block traffic from {source_ip}", <<source_ip>>),
      Line("Isolate affected system at {destination_ip}", <<destination_ip>>),
      Line("Alert security team for incident response", <<>>),
      Line("Capture network traffic for forensic analysis", <<>>),
      Line("Check for signs of compromise on target system", <<>>)>>

\* the third line is not an f-string: its braces are printed as they are
MediumLines(source_ip) ==
    <<Line("Monitor traffic from {source_ip} closely", <<source_ip>>),
      Line("Consider rate-limiting or temporary block", <<>>),
      Line("Review firewall rules for port {dest_port}", <<>>),
      Line("Check system logs for related activity", <<>>),
      Line("Prepare incident response team", <<>>)>>

LowLines(source_ip) ==
    <<Line("Log and monitor {source_ip} for pattern analysis", <<source_ip>>),
      Line("Review security policies", <<>>),
      Line("Update threat intelligence database", <<>>),
      Line("Schedule routine security audit", <<>>)>>

InfoLines ==
    <<Line("Record event for trend analysis", <<>>),
      Line("No immediate action required", <<>>)>>

\* variants of _generate_recommendations with a plausible slip each: the
\* severity consulted before the verdict; the MEDIUM list given for HIGH
_generate_recommendations_by_severity(self, is_threat, severity, data) ==
    LET source_ip == Get(data, "source_ip", "unknown") IN
    IF severity = "HIGH"
    THEN HighLines(source_ip, Get(data, "destination_ip", "target"))
    ELSE IF severity = "MEDIUM" THEN MediumLines(source_ip)
    ELSE IF severity = "LOW" THEN LowLines(source_ip)
    ELSE IF ~is_threat THEN BenignLines
    ELSE InfoLines

_generate_recommendations_medium_for_high(self, is_threat, severity, data) ==
    IF ~is_threat THEN BenignLines
    ELSE
    LET source_ip == Get(data, "source_ip", "unknown") IN
    IF severity \in {"HIGH", "MEDIUM"} THEN MediumLines(source_ip)
    ELSE IF severity = "LOW" THEN LowLines(source_ip)
    ELSE InfoLines

\* _generate_recommendations
_generate_recommendations(self, is_threat, severity, data) ==
    IF ~is_threat THEN BenignLines
    ELSE
    LET source_ip == Get(data, "source_ip", "unknown") IN
    IF severity = "HIGH"
    THEN HighLines(source_ip, Get(data, "destination_ip", "target"))
    ELSE IF severity = "MEDIUM" THEN MediumLines(source_ip)
    ELSE IF severity = "LOW" THEN LowLines(source_ip)
    ELSE InfoLines

\* _generate_explanation: the fixed opening with the confidence, then the
\* sentence chosen by the confidence
_generate_explanation(self, is_threat, confidence, severity) ==
    IF ~is_threat
    THEN [opening |-> "consistent with normal, legitimate network behavior",
          confidence |-> <<>>, certainty |-> ""]
    ELSE [opening |-> "detected unusual patterns in this network traffic",
          confidence |-> <<FormatPercent1(confidence)>>,
          certainty |->
            IF confidence >= 90 THEN "extremely high confidence score"
            ELSE IF confidence >= 70 THEN "high confidence score"
            ELSE IF confidence >= 50 THEN "moderate confidence score"
            ELSE "lower confidence score"]

\* summarize_single_event(prediction): every field is read with a default
summarize_single_event(self, prediction) ==
    LET is_threat  == Get(prediction, "is_threat", FALSE)
        confidence == Get(prediction, "confidence", 0)
        severity   == Get(prediction, "severity", "INFO")
        input_data == Get(prediction, "input_data", EmptyDict)
        summary ==
            IF is_threat
            THEN _generate_threat_summary(self, input_data, confidence, severity)
            ELSE [status |-> "ok",
                  ret |-> _generate_benign_summary(self, input_data, confidence)]
    IN  IF summary.status = "raise" THEN summary
        ELSE [status |-> "ok",
              ret |-> [k \in DOMAIN summary.ret \cup
                             {"recommendations", "explanation"} |->
                        IF k = "recommendations"
                        THEN _generate_recommendations(self, is_threat,
                                                       severity, input_data)
                        ELSE IF k = "explanation"
                        THEN _generate_explanation(self, is_threat,
                                                   confidence, severity)
                        ELSE summary.ret[k]]]

(***************************************************************************)
(* The summary of one event as a pure function: the prediction is drawn at  *)
(* the start, with any verdict, confidence and severity (the thresholds can *)
(* be moved, so no severity is tied to a confidence) and with traffic       *)
(* records that have all, some or none of their fields.                     *)
(***************************************************************************)
SummaryConfs == {0, 15, 50, 65, 92, 100}

SummaryData ==
    TrafficSamples \cup
    {EmptyDict,
     [source_ip |-> "203.0.113.9", destination_port |-> 3306],
     [source_ip |-> "198.51.100.7", destination_ip |-> "10.0.0.8",
      destination_port |-> 443, protocol |-> "<int 6>"]}

SummaryInputs ==
    {EmptyDict} \cup
    {[is_threat |-> t, confidence |-> c, severity |-> s, input_data |-> d] :
        t \in BOOLEAN, c \in SummaryConfs, s \in Severities, d \in SummaryData}

InitSummary ==
    /\ predictor = ThreatPredictor_init("None")
    /\ monitor = RealTimeThreatMonitor_init
    /\ agent = ThreatSummaryAgent_init
    /\ issued_ids = <<>>
    /\ threads = NoThreads
    /\ heap = NoHeap
    /\ input \in SummaryInputs
    /\ last = NoCall

SummarizeSingleEvent ==
    /\ LET r == summarize_single_event(SecurityEventSummarizer_init, input) IN
          last' = [op |-> "summarize_single_event",
                   args |-> [prediction |-> input],
                   status |-> r.status,
                   ret |-> IF r.status = "ok" THEN [summary |-> r.ret]
                           ELSE [error |-> r.ret]]
    /\ UNCHANGED <<predictor, monitor, agent, issued_ids, input, threads, heap>>

GenerateRecommendations ==
    /\ input # EmptyDict
    /\ last' = [op |-> "_generate_recommendations",
                args |-> [is_threat |-> input.is_threat,
                          severity |-> input.severity,
                          data |-> input.input_data],
                status |-> "ok",
                ret |-> [recommendations |->
                            _generate_recommendations(
                                SecurityEventSummarizer_init, input.is_threat,
                                input.severity, input.input_data)]]
    /\ UNCHANGED <<predictor, monitor, agent, issued_ids, input, threads, heap>>

NextSummary == SummarizeSingleEvent \/ GenerateRecommendations

SpecSummary == InitSummary /\ [][NextSummary]_vars

\* C15: the summary of a benign event with threat-class confidence c gives,
\* as its confidence level, 1 - c as a percentage with one decimal place and
\* the mark "(benign)" (15 hundredths give 85.0%); it is the raw confidence
\* only when the two coincide at one half.
C15_BenignConfidenceInverted ==
    (last.op = "summarize_single_event" /\ last.status = "ok"
        /\ ~Get(last.args.prediction, "is_threat", FALSE))
    => LET c == Get(last.args.prediction, "confidence", 0)
           level == last.ret.summary["confidence_level"]
       IN  /\ level.suffix = "(benign)"
           /\ level.percent.whole = 100 - c
           /\ Len(level.percent.decimals) = 1
           /\ (c # 50 => level.percent # FormatPercent1(c))
           /\ last.ret.summary["description"].normal_confidence.whole = 100 - c

C15_Witness ==
    /\ last.op = "summarize_single_event" /\ last.status = "ok"
    /\ last.args.prediction # EmptyDict
    /\ ~last.args.prediction.is_threat
    /\ last.args.prediction.confidence = 15
    /\ last.ret.summary["confidence_level"].percent.whole = 85

\* the recommendations produced by the latest call, whichever way it came
RecommendationCall ==
    last.status = "ok" /\
    last.op \in {"summarize_single_event", "_generate_recommendations"}

RecommendationsOf(call) ==
    IF call.op = "_generate_recommendations" THEN call.ret.recommendations
    ELSE call.ret.summary["recommendations"]

VerdictOf(call) ==
    IF call.op = "_generate_recommendations"
    THEN [is_threat |-> call.args.is_threat, severity |-> call.args.severity,
          data |-> call.args.data]
    ELSE [is_threat |-> Get(call.args.prediction, "is_threat", FALSE),
          severity |-> Get(call.args.prediction, "severity", "INFO"),
          data |-> Get(call.args.prediction, "input_data", EmptyDict)]

ActionKind(line) ==
    CASE line.text = "IMMEDIATELY block traffic from {source_ip}" -> "block source"
      [] line.text = "Isolate affected system at {destination_ip}" -> "isolate target"
      [] line.text = "Alert security team for incident response" -> "escalate to response team"
      [] line.text = "Capture network traffic for forensic analysis" -> "forensic capture"
      [] line.text = "Check for signs of compromise on target system" -> "compromise check"
      [] line.text = "Monitor traffic from {source_ip} closely" -> "watchlist"
      [] line.text = "Consider rate-limiting or temporary block" -> "rate-limit consideration"
      [] line.text = "Review firewall rules for port {dest_port}" -> "firewall review"
      [] line.text = "Check system logs for related activity" -> "log review"
      [] line.text = "Prepare incident response team" -> "prepare response team"
      [] line.text = "Log and monitor {source_ip} for pattern analysis" -> "log and monitor"
      [] line.text = "Review security policies" -> "policy review"
      [] line.text = "Update threat intelligence database" -> "intelligence update"
      [] line.text = "Schedule routine security audit" -> "audit"
      [] OTHER -> "other"

Kinds(recs) == [i \in 1..Len(recs) |-> ActionKind(recs[i])]

StartsWith(seq, prefix) ==
    Len(seq) >= Len(prefix) /\ SubSeq(seq, 1, Len(prefix)) = prefix

\* the parts of the statement about HIGH and LOW threats: the HIGH list
\* starts with block source (naming the source IP), isolate target, escalate
\* and forensic capture; the LOW list starts with log-and-monitor and has no
\* blocking action
HighAndLowTiers(verdict, recs) ==
    /\ verdict.severity = "HIGH" =>
          /\ StartsWith(Kinds(recs), <<"block source", "isolate target",
                                       "escalate to response team",
                                       "forensic capture">>)
          /\ recs[1].args = <<Get(verdict.data, "source_ip", "unknown")>>
    /\ verdict.severity = "LOW" =>
          /\ StartsWith(Kinds(recs), <<"log and monitor">>)
          /\ \A i \in 1..Len(recs) :
                Kinds(recs)[i] \notin {"block source", "isolate target",
                                       "rate-limit consideration"}

\* C20 as stated: for a threat the list begins with the base actions of its
\* tier, where MEDIUM gives watchlist, rate-limit consideration, increased
\* logging.
C20_TierBaseActionsAsStated ==
    (RecommendationCall /\ VerdictOf(last).is_threat)
    => LET recs == RecommendationsOf(last) IN
       /\ HighAndLowTiers(VerdictOf(last), recs)
       /\ VerdictOf(last).severity = "MEDIUM" =>
             StartsWith(Kinds(recs), <<"watchlist", "rate-limit consideration",
                                       "increased logging">>)

\* C20: for a threat the list begins with the base actions of its tier in
\* fixed order: HIGH gives block source (naming the source IP), isolate
\* target, escalate to the response team, forensic capture; MEDIUM gives
\* watchlist, rate-limit consideration, firewall-rule review, log review;
\* LOW gives log and monitor with no blocking action.
C20_TierBaseActions ==
    (RecommendationCall /\ VerdictOf(last).is_threat)
    => LET recs == RecommendationsOf(last) IN
       /\ HighAndLowTiers(VerdictOf(last), recs)
       /\ VerdictOf(last).severity = "MEDIUM" =>
             StartsWith(Kinds(recs), <<"watchlist", "rate-limit consideration",
                                       "firewall review", "log review">>)

C20_Witness ==
    /\ last.op = "summarize_single_event" /\ last.status = "ok"
    /\ last.args.prediction # EmptyDict
    /\ last.args.prediction.is_threat
    /\ last.args.prediction.severity = "MEDIUM"
    /\ "source_ip" \in DOMAIN last.args.prediction.input_data
    /\ Len(last.ret.summary["recommendations"]) = 5

(***************************************************************************)
(* SecurityEventSummarizer: the summary of a list of events                *)
(***************************************************************************)
\* The largest list of events given to an aggregator
MaxBatch == 3

\* The largest count given to _generate_executive_summary
MaxCount == 2

\* f"{x:.1f}" for x = num / den * 100: x rounded to tenths.  A tie between
\* two tenths needs den to be a multiple of 16, which the lists here are
\* too short for.
FormatFixed1(num, den) ==
    LET tenths == (2000 * num + den) \div (2 * den)
    IN  [whole |-> tenths \div 10, decimals |-> <<tenths % 10>>]

\* a _generate_executive_summary that looks at the threat count first
_generate_executive_summary_threats_first(self, total, threat_count, severity_counts) ==
    LET threat_rate == IF total > 0 THEN FormatFixed1(threat_count, total)
                       ELSE [whole |-> 0, decimals |-> <<0>>]
        head ==
            IF threat_count > 0 /\ severity_counts["HIGH"] = 0
                                /\ severity_counts["MEDIUM"] = 0
            THEN [status |-> "ADVISORY",
                  message |-> Line("ADVISORY: {threat_count} low-severity threats detected. Monitoring recommended.",
                                   <<threat_count>>)]
            ELSE IF threat_count = 0
            THEN [status |-> "ALL CLEAR",
                  message |-> Line("All analyzed traffic appears legitimate. No threats detected.",
                                   <<>>)]
            ELSE IF severity_counts["HIGH"] > 0
            THEN [status |-> "CRITICAL ALERT",
                  message |-> Line("URGENT: {HIGH} high-severity threats detected! Immediate action required.",
                                   <<severity_counts["HIGH"]>>)]
            ELSE [status |-> "WARNING",
                  message |-> Line("WARNING: {MEDIUM} medium-severity threats detected. Action recommended.",
                                   <<severity_counts["MEDIUM"]>>)]
    IN  [status |-> head.status,
         message |-> head.message,
         analysis |-> [total |-> total, threat_count |-> threat_count,
                       threat_rate |-> threat_rate],
         distribution |-> [HIGH |-> severity_counts["HIGH"],
                           MEDIUM |-> severity_counts["MEDIUM"],
                           LOW |-> severity_counts["LOW"],
                           INFO |-> severity_counts["INFO"]]]

\* _generate_executive_summary: the banner and its message, then the fixed
\* block with the totals and the four counts
_generate_executive_summary(self, total, threat_count, severity_counts) ==
    LET threat_rate == IF total > 0 THEN FormatFixed1(threat_count, total)
                       ELSE [whole |-> 0, decimals |-> <<0>>]
        head ==
            IF severity_counts["HIGH"] > 0
            THEN [status |-> "CRITICAL ALERT",
                  message |-> Line("URGENT: {HIGH} high-severity threats detected! Immediate action required.",
                                   <<severity_counts["HIGH"]>>)]
            ELSE IF severity_counts["MEDIUM"] > 0
            THEN [status |-> "WARNING",
                  message |-> Line("WARNING: {MEDIUM} medium-severity threats detected. Action recommended.",
                                   <<severity_counts["MEDIUM"]>>)]
            ELSE IF threat_count > 0
            THEN [status |-> "ADVISORY",
                  message |-> Line("ADVISORY: {threat_count} low-severity threats detected. Monitoring recommended.",
                                   <<threat_count>>)]
            ELSE [status |-> "ALL CLEAR",
                  message |-> Line("All analyzed traffic appears legitimate. No threats detected.",
                                   <<>>)]
    IN  [status |-> head.status,
         message |-> head.message,
         analysis |-> [total |-> total, threat_count |-> threat_count,
                       threat_rate |-> threat_rate],
         distribution |-> [HIGH |-> severity_counts["HIGH"],
                           MEDIUM |-> severity_counts["MEDIUM"],
                           LOW |-> severity_counts["LOW"],
                           INFO |-> severity_counts["INFO"]]]

\* len([p for p in predictions if p.get('is_threat', False)])
CountThreatsGet(seq) ==
    Cardinality({i \in 1..Len(seq) : Get(seq[i], "is_threat", FALSE)})

\* sum(1 for p in predictions if p.get('severity') == s)
CountSeverityGet(seq, s) ==
    Cardinality({i \in 1..Len(seq) : Get(seq[i], "severity", "None") = s})

\* [self.summarize_single_event(p) for p in events]: the first summary that
\* raises ends the comprehension
RECURSIVE SummarizeEach(_, _)
SummarizeEach(self, events) ==
    IF events = <<>> THEN [status |-> "ok", ret |-> <<>>]
    ELSE LET first == summarize_single_event(self, Head(events)) IN
         IF first.status = "raise" THEN first
         ELSE LET rest == SummarizeEach(self, Tail(events)) IN
              IF rest.status = "raise" THEN rest
              ELSE [status |-> "ok", ret |-> <<first.ret>> \o rest.ret]

IsHigh(p) == Get(p, "severity", "None") = "HIGH"

\* a summarize_batch_events that divides without looking at total
summarize_batch_events_unguarded(self, predictions) ==
    LET total        == Len(predictions)
        threat_count == CountThreatsGet(predictions)
        severity_counts ==
            [s \in {"HIGH", "MEDIUM", "LOW", "INFO"} |->
                CountSeverityGet(predictions, s)]
        critical_alerts == SummarizeEach(self, SelectSeq(predictions, IsHigh))
    IN  IF critical_alerts.status = "raise" THEN critical_alerts
        ELSE IF total = 0
        THEN [status |-> "raise", ret |-> "ZeroDivisionError"]
        ELSE [status |-> "ok",
              ret |-> [executive_summary |->
                          _generate_executive_summary(self, total, threat_count,
                                                      severity_counts),
                       total_events |-> total,
                       threat_count |-> threat_count,
                       benign_count |-> total - threat_count,
                       severity_breakdown |-> severity_counts,
                       critical_alerts |-> critical_alerts.ret,
                       threat_rate |-> FormatFixed1(threat_count, total)]]

\* a summarize_batch_events whose critical alerts are the HIGH threats only
IsHighThreat(p) == IsHigh(p) /\ Get(p, "is_threat", FALSE)

summarize_batch_events_high_threats(self, predictions) ==
    LET total        == Len(predictions)
        threat_count == CountThreatsGet(predictions)
        severity_counts ==
            [s \in {"HIGH", "MEDIUM", "LOW", "INFO"} |->
                CountSeverityGet(predictions, s)]
        critical_alerts == SummarizeEach(self, SelectSeq(predictions, IsHighThreat))
    IN  IF critical_alerts.status = "raise" THEN critical_alerts
        ELSE [status |-> "ok",
              ret |-> [executive_summary |->
                          _generate_executive_summary(self, total, threat_count,
                                                      severity_counts),
                       total_events |-> total,
                       threat_count |-> threat_count,
                       benign_count |-> total - threat_count,
                       severity_breakdown |-> severity_counts,
                       critical_alerts |-> critical_alerts.ret,
                       threat_rate |-> IF total > 0
                                       THEN FormatFixed1(threat_count, total)
                                       ELSE [whole |-> 0, decimals |-> <<>>]]]

\* summarize_batch_events.  threat_rate is "0%" for an empty list and one
\* decimal otherwise; the summary's own timestamp is left out.
summarize_batch_events(self, predictions) ==
    LET total        == Len(predictions)
        threat_count == CountThreatsGet(predictions)
        severity_counts ==
            [s \in {"HIGH", "MEDIUM", "LOW", "INFO"} |->
                CountSeverityGet(predictions, s)]
        critical_alerts == SummarizeEach(self, SelectSeq(predictions, IsHigh))
    IN  IF critical_alerts.status = "raise" THEN critical_alerts
        ELSE [status |-> "ok",
              ret |-> [executive_summary |->
                          _generate_executive_summary(self, total, threat_count,
                                                      severity_counts),
                       total_events |-> total,
                       threat_count |-> threat_count,
                       benign_count |-> total - threat_count,
                       severity_breakdown |-> severity_counts,
                       critical_alerts |-> critical_alerts.ret,
                       threat_rate |-> IF total > 0
                                       THEN FormatFixed1(threat_count, total)
                                       ELSE [whole |-> 0, decimals |-> <<>>]]]

(***************************************************************************)
(* The two aggregators as pure functions: the list of events is drawn at    *)
(* the start from what predict_single produces with the default thresholds  *)
(* (every verdict with a confidence of each band), up to MaxBatch events.   *)
(***************************************************************************)
BatchConfs == {15, 40, 65, 92}

BatchEvents ==
    {predict_single(ThreatPredictor_init("loaded"), d,
                    [raises |-> FALSE, prediction |-> p, confidence |-> c],
                    0).ret :
        d \in TrafficSamples, p \in BOOLEAN, c \in BatchConfs}

BatchInputs == UNION {[1..n -> BatchEvents] : n \in 0..MaxBatch}

InitBatch ==
    /\ predictor = ThreatPredictor_init("loaded")
    /\ monitor = RealTimeThreatMonitor_init
    /\ agent = ThreatSummaryAgent_init
    /\ issued_ids = <<>>
    /\ threads = NoThreads
    /\ heap = NoHeap
    /\ input \in BatchInputs
    /\ last = NoCall

AnalyzeThreats ==
    /\ last' = [op |-> "analyze_threats", args |-> [predictions |-> input],
                status |-> "ok",
                ret |-> [analysis |-> analyze_threats(predictor, input)]]
    /\ UNCHANGED <<predictor, monitor, agent, issued_ids, input, threads, heap>>

SummarizeBatchEvents ==
    /\ LET r == summarize_batch_events(SecurityEventSummarizer_init, input) IN
          last' = [op |-> "summarize_batch_events",
                   args |-> [predictions |-> input],
                   status |-> r.status,
                   ret |-> IF r.status = "ok" THEN [batch |-> r.ret]
                           ELSE [error |-> r.ret]]
    /\ UNCHANGED <<predictor, monitor, agent, issued_ids, input, threads, heap>>

NextBatch == AnalyzeThreats \/ SummarizeBatchEvents

SpecBatch == InitBatch /\ [][NextBatch]_vars

Sum4(counts) == counts["HIGH"] + counts["MEDIUM"] + counts["LOW"] + counts["INFO"]

\* C11: for a list of events whose severities come from the classifier, both
\* aggregators return threat_count + benign_count = total and four severity
\* counts that sum to total, total being the length of the list.
C11_BatchCountsAddUp ==
    /\ last.op = "analyze_threats" =>
          LET a == last.ret.analysis IN
          /\ a.total_analyzed = Len(last.args.predictions)
          /\ a.threat_count + a.benign_count = a.total_analyzed
          /\ Sum4(a.severity_distribution) = a.total_analyzed
    /\ last.op = "summarize_batch_events" =>
          /\ last.status = "ok"
          /\ LET b == last.ret.batch IN
             /\ b.total_events = Len(last.args.predictions)
             /\ b.threat_count + b.benign_count = b.total_events
             /\ Sum4(b.severity_breakdown) = b.total_events

C11_Witness ==
    /\ last.op = "summarize_batch_events" /\ last.status = "ok"
    /\ last.ret.batch.total_events = 3
    /\ last.ret.batch.threat_count = 2
    /\ last.ret.batch.severity_breakdown["HIGH"] = 1
    /\ last.ret.batch.severity_breakdown["LOW"] = 1
    /\ last.ret.batch.severity_breakdown["INFO"] = 1

\* C12: aggregating the empty list does not raise and gives total 0, threat
\* count 0 and threat rate 0; for a non-empty list the threat rate is
\* threat_count / total, exactly in analyze_threats and as the nearest
\* percentage with one decimal in summarize_batch_events.
C12_ThreatRateGuarded ==
    /\ last.op = "analyze_threats" =>
          LET a == last.ret.analysis
              n == Len(last.args.predictions)
          IN  /\ last.status = "ok"
              /\ n = 0 => /\ a.total_analyzed = 0 /\ a.threat_count = 0
                          /\ a.threat_rate.num = 0 /\ a.threat_rate.den # 0
              /\ n > 0 => /\ a.threat_rate.den # 0
                          /\ a.threat_rate.num * n
                                = CountThreats(last.args.predictions)
                                    * a.threat_rate.den
    /\ last.op = "summarize_batch_events" =>
          /\ last.status = "ok"
          /\ LET b == last.ret.batch
                 n == Len(last.args.predictions)
                 tenths == b.threat_rate.whole * 10 + b.threat_rate.decimals[1]
                 exact  == 1000 * CountThreats(last.args.predictions)
             IN  /\ n = 0 => /\ b.total_events = 0 /\ b.threat_count = 0
                             /\ b.threat_rate.whole = 0
                             /\ b.threat_rate.decimals = <<>>
                 /\ n > 0 => /\ Len(b.threat_rate.decimals) = 1
                             /\ 2 * (tenths * n - exact) <= n
                             /\ 2 * (exact - tenths * n) <= n

C12_Witness ==
    /\ last.op = "summarize_batch_events" /\ last.status = "ok"
    /\ last.args.predictions = <<>>
    /\ last.ret.batch.total_events = 0

(***************************************************************************)
(* The executive summary as a pure function of its three arguments, each    *)
(* count drawn independently.                                               *)
(***************************************************************************)
ExecutiveInputs ==
    [total : 0..MaxCount, threat_count : 0..MaxCount,
     severity_counts : [Severities -> 0..MaxCount]]

InitExecutive ==
    /\ predictor = ThreatPredictor_init("None")
    /\ monitor = RealTimeThreatMonitor_init
    /\ agent = ThreatSummaryAgent_init
    /\ issued_ids = <<>>
    /\ threads = NoThreads
    /\ heap = NoHeap
    /\ input \in ExecutiveInputs
    /\ last = NoCall

GenerateExecutiveSummary ==
    /\ last' = [op |-> "_generate_executive_summary", args |-> input,
                status |-> "ok",
                ret |-> [executive_summary |->
                            _generate_executive_summary(
                                SecurityEventSummarizer_init, input.total,
                                input.threat_count, input.severity_counts)]]
    /\ UNCHANGED <<predictor, monitor, agent, issued_ids, input, threads, heap>>

NextExecutive == GenerateExecutiveSummary

SpecExecutive == InitExecutive /\ [][NextExecutive]_vars

\* C14: the banner is chosen by first match: CRITICAL ALERT, naming the HIGH
\* count, when the HIGH count is positive; else WARNING when the MEDIUM
\* count is positive; else ADVISORY when the threat count is positive; else
\* ALL CLEAR.
C14_BannerFirstMatch ==
    last.op = "_generate_executive_summary" =>
       LET counts == last.args.severity_counts
           s == last.ret.executive_summary
       IN  /\ s.status \in {"CRITICAL ALERT", "WARNING", "ADVISORY", "ALL CLEAR"}
           /\ (s.status = "CRITICAL ALERT") <=> (counts["HIGH"] > 0)
           /\ s.status = "CRITICAL ALERT" => s.message.args = <<counts["HIGH"]>>
           /\ (s.status = "WARNING")
                <=> (counts["HIGH"] = 0 /\ counts["MEDIUM"] > 0)
           /\ (s.status = "ADVISORY")
                <=> (counts["HIGH"] = 0 /\ counts["MEDIUM"] = 0
                     /\ last.args.threat_count > 0)
           /\ (s.status = "ALL CLEAR")
                <=> (counts["HIGH"] = 0 /\ counts["MEDIUM"] = 0
                     /\ last.args.threat_count = 0)

C14_Witness ==
    /\ last.op = "_generate_executive_summary"
    /\ last.args.severity_counts["HIGH"] = 2
    /\ last.args.severity_counts["MEDIUM"] = 1
    /\ last.args.threat_count = 0
    /\ last.ret.executive_summary.status = "CRITICAL ALERT"
    /\ last.ret.executive_summary.message.args = <<2>>

(***************************************************************************)
(* ThreatSummaryAgent                                                      *)
(***************************************************************************)
\* The longest event history an agent is driven to
MaxAgentHistory == 2

\* analyze_and_summarize: the prediction is stored first, then summarized;
\* an exception from the summarizer leaves it stored
analyze_and_summarize(self, prediction) ==
    LET stored  == [self EXCEPT !.event_history = Append(@, prediction)]
        summary == summarize_single_event(SecurityEventSummarizer_init, prediction)
    IN  IF summary.status = "raise"
        THEN [self |-> stored, status |-> "raise", ret |-> summary.ret]
        ELSE [self |-> stored, status |-> "ok",
              ret |-> [original_prediction |-> prediction,
                       ai_summary |-> summary.ret]]

\* _generate_report_recommendations
_generate_report_recommendations(self, batch_summary) ==
    LET severity_counts == batch_summary.severity_breakdown IN
    (IF severity_counts["HIGH"] > 0
     THEN <<Line("CRITICAL: Execute incident response plan immediately", <<>>),
            Line("Engage security operations center (SOC) for threat hunting", <<>>)>>
     ELSE <<>>)
    \o (IF severity_counts["MEDIUM"] > 5
        THEN <<Line("Consider increasing security monitoring level", <<>>)>>
        ELSE <<>>)
    \o (IF 5 * batch_summary.threat_count > batch_summary.total_events
        THEN <<Line("High threat rate detected - review network security posture", <<>>)>>
        ELSE <<>>)
    \o <<Line("Archive this report for compliance and audit purposes", <<>>),
         Line("Schedule regular security posture reviews", <<>>),
         Line("Update threat intelligence database with new indicators", <<>>)>>

\* _calculate_historical_threat_rate: "0%" for an empty history
_calculate_historical_threat_rate(self) ==
    IF self.event_history = <<>> THEN [whole |-> 0, decimals |-> <<>>]
    ELSE FormatFixed1(CountThreatsGet(self.event_history),
                      Len(self.event_history))

\* The predictions argument of generate_report: None, or a list
None == [given |-> FALSE, list |-> <<>>]

Supplied(list) == [given |-> TRUE, list |-> list]

\* bool(x) for None or a list
Truthy(predictions) == predictions.given /\ predictions.list # <<>>

\* report['historical_context'] = {...}, lines 503-506
AttachHistoricalContext(self, report) ==
    [k \in DOMAIN report \cup {"historical_context"} |->
        IF k = "historical_context"
        THEN [total_historical_events |-> Len(self.event_history),
              historical_threat_rate |-> _calculate_historical_threat_rate(self)]
        ELSE report[k]]

\* lines 491-510 of generate_report: the report built from the batch summary
\* of the events_analyzed events, or the summarizer's exception
BuildReport(self, batch, events_analyzed, include_history) ==
    IF batch.status = "raise"
    THEN [self |-> self, status |-> "raise", ret |-> batch.ret]
    ELSE [self |-> self, status |-> "ok",
          ret |->
            IF include_history /\ self.event_history # <<>>
            THEN AttachHistoricalContext(self,
                    [report_type |-> "Threat Intelligence Summary",
                     analysis_period |-> [events_analyzed |-> events_analyzed],
                     summary |-> batch.ret,
                     recommendations |->
                        _generate_report_recommendations(self, batch.ret)])
            ELSE [report_type |-> "Threat Intelligence Summary",
                  analysis_period |-> [events_analyzed |-> events_analyzed],
                  summary |-> batch.ret,
                  recommendations |->
                        _generate_report_recommendations(self, batch.ret)]]

\* data_to_analyze = predictions if predictions else self.event_history
DataToAnalyze(self, predictions) ==
    IF Truthy(predictions) THEN predictions.list ELSE self.event_history

\* generate_report(predictions=None, include_history=False); the timestamps
\* and the constant time_range are left out
generate_report(self, predictions, include_history) ==
    IF DataToAnalyze(self, predictions) = <<>>
    THEN [self |-> self, status |-> "ok",
          ret |-> [status |-> "NO_DATA",
                   message |-> "No security events to analyze"]]
    ELSE BuildReport(self,
                     summarize_batch_events(SecurityEventSummarizer_init,
                                            DataToAnalyze(self, predictions)),
                     Len(DataToAnalyze(self, predictions)),
                     include_history)

\* clear_history
clear_history(self) ==
    [self |-> [self EXCEPT !.event_history = <<>>], status |-> "ok"]

\* predict_and_display of the dashboard, with both services initialized: the
\* prediction, then the monitor, then the agent, and one except clause that
\* turns any exception into a 500 without undoing what was done.  The model
\* is a fixed function of the row, so both predictions see the outcome clf.
predict_and_display(mon, ag, pred, data, clf, now) ==
    IF data = EmptyDict
    THEN [monitor |-> mon, agent |-> ag, code |-> 400,
          body |-> [error |-> "No data provided"]]
    ELSE
    LET result == predict_single(pred, data, clf, now) IN
    IF result.status = "raise"
    THEN [monitor |-> mon, agent |-> ag, code |-> 500,
          body |-> [error |-> result.ret]]
    ELSE
    LET processed == process_traffic(mon, pred, data, clf, now) IN
    IF processed.status = "raise"
    THEN [monitor |-> processed.self, agent |-> ag, code |-> 500,
          body |-> [error |-> processed.ret]]
    ELSE
    LET analysis == analyze_and_summarize(ag, result.ret) IN
    IF analysis.status = "raise"
    THEN [monitor |-> processed.self, agent |-> analysis.self, code |-> 500,
          body |-> [error |-> analysis.ret]]
    ELSE [monitor |-> processed.self, agent |-> analysis.self, code |-> 200,
          body |-> [analysis |-> analysis.ret]]

(***************************************************************************)
(* The agent as a state machine: one action per call of a method.           *)
(***************************************************************************)
\* a complete traffic record, and one whose protocol is the number 6
AgentData ==
    TrafficSamples \cup
    {[source_ip |-> "198.51.100.7", destination_ip |-> "10.0.0.8",
      destination_port |-> 443, protocol |-> "<int 6>"]}

AgentClassifierOutcomes ==
    {[raises |-> TRUE, prediction |-> FALSE, confidence |-> 0],
     [raises |-> FALSE, prediction |-> TRUE, confidence |-> 92],
     [raises |-> FALSE, prediction |-> FALSE, confidence |-> 15]}

\* the predictions a loaded predictor hands to the agent
AgentEvents ==
    {predict_single(ThreatPredictor_init("loaded"), d, clf, 0).ret :
        d \in AgentData,
        clf \in {c \in AgentClassifierOutcomes : ~c.raises}}

\* the predictions arguments tried: omitted, empty, one event, two events
ReportArguments ==
    {None, Supplied(<<>>)} \cup
    {Supplied(<<e>>) : e \in AgentEvents} \cup
    {Supplied(<<e, e>>) : e \in AgentEvents}

InitAgent ==
    /\ predictor = ThreatPredictor_init("loaded")
    /\ monitor = RealTimeThreatMonitor_init
    /\ agent = ThreatSummaryAgent_init
    /\ issued_ids = <<>>
    /\ threads = NoThreads
    /\ heap = NoHeap
    /\ input = EmptyDict
    /\ last = NoCall

AnalyzeAndSummarize ==
    /\ Len(agent.event_history) < MaxAgentHistory
    /\ \E prediction \in AgentEvents :
          LET r == analyze_and_summarize(agent, prediction) IN
          /\ agent' = r.self
          /\ last' = [op |-> "analyze_and_summarize",
                      args |-> [prediction |-> prediction],
                      status |-> r.status,
                      ret |-> IF r.status = "ok" THEN [analysis |-> r.ret]
                              ELSE [error |-> r.ret]]
    /\ UNCHANGED <<predictor, monitor, issued_ids, input, threads, heap>>

GenerateReport ==
    /\ \E predictions \in ReportArguments, include_history \in BOOLEAN :
          LET r == generate_report(agent, predictions, include_history) IN
          /\ agent' = r.self
          /\ last' = [op |-> "generate_report",
                      args |-> [predictions |-> predictions,
                                include_history |-> include_history],
                      status |-> r.status,
                      ret |-> IF r.status = "ok" THEN [report |-> r.ret]
                              ELSE [error |-> r.ret]]
    /\ UNCHANGED <<predictor, monitor, issued_ids, input, threads, heap>>

ClearHistory ==
    /\ agent' = clear_history(agent).self
    /\ last' = [op |-> "clear_history", args |-> EmptyDict, status |-> "ok",
                ret |-> EmptyDict]
    /\ UNCHANGED <<predictor, monitor, issued_ids, input, threads, heap>>

NextAgent ==
    \/ AnalyzeAndSummarize
    \/ GenerateReport
    \/ ClearHistory

SpecAgent == InitAgent /\ [][NextAgent]_vars

IsNoData(report) == "status" \in DOMAIN report

\* C13: generate_report reports over the supplied events when events are
\* supplied and over the history when they are omitted, and answers NO_DATA
\* exactly when that chosen list is empty; a supplied empty list is not
\* replaced by the history.  (generate_report leaves the agent as it was, so
\* agent.event_history is the history the call saw.)
C13_ReportOverChosenEvents ==
    (last.op = "generate_report" /\ last.status = "ok")
    => LET chosen == IF last.args.predictions.given
                     THEN last.args.predictions.list
                     ELSE agent.event_history
           report == last.ret.report
       IN  /\ IsNoData(report) <=> chosen = <<>>
           /\ ~IsNoData(report) =>
                 /\ report["analysis_period"].events_analyzed = Len(chosen)
                 /\ report["summary"].total_events = Len(chosen)

\* C18: a report produced with include_history set carries a historical
\* context whose total is the length of the agent's history and whose rate
\* is the share of threats in it (0 for an empty history), whichever events
\* were analyzed.
C18_HistoricalContextAttached ==
    (last.op = "generate_report" /\ last.status = "ok"
        /\ last.args.include_history /\ ~IsNoData(last.ret.report))
    => /\ "historical_context" \in DOMAIN last.ret.report
       /\ LET context == last.ret.report["historical_context"]
              n == Len(agent.event_history)
              tenths == context.historical_threat_rate.whole * 10
                        + (IF context.historical_threat_rate.decimals = <<>>
                           THEN 0
                           ELSE context.historical_threat_rate.decimals[1])
              exact == 1000 * CountThreatsGet(agent.event_history)
          IN  /\ context.total_historical_events = n
              /\ n = 0 => tenths = 0
              /\ n > 0 => /\ 2 * (tenths * n - exact) <= n
                          /\ 2 * (exact - tenths * n) <= n

\* C17: when summarization fails in analyze_and_summarize, or in the
\* dashboard handler that calls it after process_traffic, the call reports
\* the error and neither the agent's history, nor the monitor's history, nor
\* the alert queue has gained an entry.
C17_NoEntryOnSummaryFailure ==
    [][(last'.op \in {"analyze_and_summarize", "predict_and_display"}
          /\ last'.status = "raise")
       => /\ agent'.event_history = agent.event_history
          /\ monitor'.threat_history = monitor.threat_history
          /\ monitor'.alert_queue = monitor.alert_queue]_vars

(***************************************************************************)
(* The dashboard of src/dashboard/app.py: one monitor and one agent behind  *)
(* the same handlers, one request at a time.                                *)
(***************************************************************************)
\* clear_dashboard_data: clear_alerts, then threat_history = [], then
\* clear_history
clear_dashboard_data(mon, ag) ==
    [monitor |-> [clear_alerts(mon).self EXCEPT !.threat_history = <<>>],
     agent |-> clear_history(ag).self,
     code |-> 200,
     body |-> [message |-> "Dashboard data cleared successfully"]]

InitDashboard ==
    /\ predictor = ThreatPredictor_init("loaded")
    /\ monitor = RealTimeThreatMonitor_init
    /\ agent = ThreatSummaryAgent_init
    /\ issued_ids = <<>>
    /\ threads = NoThreads
    /\ heap = NoHeap
    /\ input = EmptyDict
    /\ last = NoCall

\* the limit query parameter of /api/dashboard/alerts: one alert, or the
\* default of 10
DashboardLimits == {1, 10}

\* get_dashboard_status, with the monitor initialized: statistics, the last
\* five alerts and the health read off the threat rate (above 0.5 critical,
\* above 0.2 warning)
get_dashboard_status(mon, ag, pred) ==
    LET stats == get_threat_statistics(mon, pred).ret IN
    [monitor |-> mon, agent |-> ag, code |-> 200,
     body |-> [status |->
                  IF 2 * stats.threat_rate.num > stats.threat_rate.den
                  THEN "critical"
                  ELSE IF 5 * stats.threat_rate.num > stats.threat_rate.den
                  THEN "warning"
                  ELSE "healthy",
               statistics |-> stats,
               recent_alerts |-> get_active_alerts(mon, 5).ret,
               model_loaded |-> pred.model # "None"]]

\* event.get('is_threat', False), the filter of get_live_threats
IsThreatEvent(event) == Get(event, "is_threat", FALSE)

\* get_live_threats: the threats among the last twenty events
get_live_threats(mon, ag) ==
    LET recent_threats ==
            SelectSeq(PySliceFrom(mon.threat_history, 0 - 20), IsThreatEvent)
    IN  [monitor |-> mon, agent |-> ag, code |-> 200,
         body |-> [threats |-> recent_threats, count |-> Len(recent_threats)]]

\* next((t for t in history if t.get('timestamp') == timestamp), None): the
\* position of the first event with that timestamp, 0 for None
RECURSIVE FirstWithTimestamp(_, _, _)
FirstWithTimestamp(history, timestamp, from) ==
    IF from > Len(history) THEN 0
    ELSE IF Get(history[from], "timestamp", "None") = timestamp THEN from
    ELSE FirstWithTimestamp(history, timestamp, from + 1)

\* the loop of get_dashboard_alerts over the alerts that are left: each alert
\* whose event is found is analyzed by the agent, which stores the event in
\* its history once more; an exception of the agent ends the request
RECURSIVE EnrichAlerts(_, _, _, _)
RECURSIVE EnrichFound(_, _, _, _)
EnrichAlerts(mon, ag, alerts, enriched) ==
    IF alerts = <<>> THEN [agent |-> ag, status |-> "ok", ret |-> enriched]
    ELSE IF FirstWithTimestamp(mon.threat_history,
                               Get(Head(alerts), "timestamp", "None"), 1) = 0
    THEN EnrichAlerts(mon, ag, Tail(alerts),
                      Append(enriched, [alert |-> Head(alerts),
                                        ai_summary |-> EmptyDict]))
    ELSE EnrichFound(mon, alerts, enriched,
            analyze_and_summarize(ag,
                mon.threat_history[
                    FirstWithTimestamp(mon.threat_history,
                                       Get(Head(alerts), "timestamp", "None"),
                                       1)]))

\* lines 118-123: what the loop does with the agent's answer for one alert
EnrichFound(mon, alerts, enriched, analysis) ==
    IF analysis.status = "raise"
    THEN [agent |-> analysis.self, status |-> "raise", ret |-> analysis.ret]
    ELSE EnrichAlerts(mon, analysis.self, Tail(alerts),
                      Append(enriched, [alert |-> Head(alerts),
                                        ai_summary |-> analysis.ret.ai_summary]))

\* lines 125-131: the response of get_dashboard_alerts once the loop is over
DashboardAlertsResponse(mon, looped) ==
    IF looped.status = "raise"
    THEN [monitor |-> mon, agent |-> looped.agent, code |-> 500,
          body |-> [error |-> looped.ret]]
    ELSE [monitor |-> mon, agent |-> looped.agent, code |-> 200,
          body |-> [alerts |-> looped.ret, count |-> Len(looped.ret)]]

\* get_dashboard_alerts(limit), with both services initialized; it has no
\* except clause, so an exception is the framework's 500
get_dashboard_alerts(mon, ag, limit) ==
    DashboardAlertsResponse(mon,
        EnrichAlerts(mon, ag, get_active_alerts(mon, limit).ret, <<>>))

\* lines 145-146: the response of generate_dashboard_report
DashboardReportResponse(mon, ag, generated) ==
    IF generated.status = "raise"
    THEN [monitor |-> mon, agent |-> generated.self, code |-> 500,
          body |-> [error |-> generated.ret]]
    ELSE [monitor |-> mon, agent |-> generated.self, code |-> 200,
          body |-> [report |-> generated.ret]]

\* generate_dashboard_report: the agent's report over the monitor's history,
\* with the agent's own history as historical context
generate_dashboard_report(mon, ag) ==
    DashboardReportResponse(mon, ag,
        generate_report(ag, Supplied(mon.threat_history), TRUE))

\* get_detailed_statistics: the statistics, with the key hourly_metrics added
\* when the history is not empty
get_detailed_statistics(mon, ag, pred) ==
    [monitor |-> mon, agent |-> ag, code |-> 200,
     body |->
        IF mon.threat_history # <<>>
        THEN [hourly_metrics |->
                 [total_analyzed |-> Len(mon.threat_history),
                  threats_detected |-> CountThreatsGet(mon.threat_history),
                  benign_traffic |-> Len(mon.threat_history)
                                     - CountThreatsGet(mon.threat_history)]]
             @@ get_threat_statistics(mon, pred).ret
        ELSE get_threat_statistics(mon, pred).ret]

PredictAndDisplay ==
    /\ Len(monitor.threat_history) < MaxAgentHistory
    /\ Len(agent.event_history) < MaxAgentHistory
    /\ \E data \in AgentData \cup {EmptyDict}, clf \in AgentClassifierOutcomes,
          now \in Timestamps :
          LET r == predict_and_display(monitor, agent, predictor, data, clf, now) IN
          /\ monitor' = r.monitor
          /\ agent' = r.agent
          /\ last' = [op |-> "predict_and_display",
                      args |-> [traffic_data |-> data, clf |-> clf],
                      status |-> IF r.code = 200 THEN "ok" ELSE "raise",
                      ret |-> r.body]
    /\ UNCHANGED <<predictor, issued_ids, input, threads, heap>>

ClearDashboardData ==
    /\ LET r == clear_dashboard_data(monitor, agent) IN
          /\ monitor' = r.monitor
          /\ agent' = r.agent
          /\ last' = [op |-> "clear_dashboard_data", args |-> EmptyDict,
                      status |-> "ok", ret |-> r.body]
    /\ UNCHANGED <<predictor, issued_ids, input, threads, heap>>

GetDashboardStatus ==
    /\ LET r == get_dashboard_status(monitor, agent, predictor) IN
          /\ monitor' = r.monitor
          /\ agent' = r.agent
          /\ last' = [op |-> "get_dashboard_status", args |-> EmptyDict,
                      status |-> "ok", ret |-> r.body]
    /\ UNCHANGED <<predictor, issued_ids, input, threads, heap>>

GetLiveThreats ==
    /\ LET r == get_live_threats(monitor, agent) IN
          /\ monitor' = r.monitor
          /\ agent' = r.agent
          /\ last' = [op |-> "get_live_threats", args |-> EmptyDict,
                      status |-> "ok", ret |-> r.body]
    /\ UNCHANGED <<predictor, issued_ids, input, threads, heap>>

GetDashboardAlerts ==
    /\ Len(agent.event_history) < MaxAgentHistory
    /\ \E limit \in DashboardLimits :
          LET r == get_dashboard_alerts(monitor, agent, limit) IN
          /\ monitor' = r.monitor
          /\ agent' = r.agent
          /\ last' = [op |-> "get_dashboard_alerts",
                      args |-> [limit |-> limit],
                      status |-> IF r.code = 200 THEN "ok" ELSE "raise",
                      ret |-> r.body]
    /\ UNCHANGED <<predictor, issued_ids, input, threads, heap>>

GenerateDashboardReport ==
    /\ LET r == generate_dashboard_report(monitor, agent) IN
          /\ monitor' = r.monitor
          /\ agent' = r.agent
          /\ last' = [op |-> "generate_dashboard_report", args |-> EmptyDict,
                      status |-> IF r.code = 200 THEN "ok" ELSE "raise",
                      ret |-> r.body]
    /\ UNCHANGED <<predictor, issued_ids, input, threads, heap>>

GetDetailedStatistics ==
    /\ LET r == get_detailed_statistics(monitor, agent, predictor) IN
          /\ monitor' = r.monitor
          /\ agent' = r.agent
          /\ last' = [op |-> "get_detailed_statistics", args |-> EmptyDict,
                      status |-> "ok", ret |-> r.body]
    /\ UNCHANGED <<predictor, issued_ids, input, threads, heap>>

NextDashboard ==
    \/ PredictAndDisplay
    \/ ClearDashboardData
    \/ GetDashboardStatus
    \/ GetLiveThreats
    \/ GetDashboardAlerts
    \/ GenerateDashboardReport
    \/ GetDetailedStatistics

SpecDashboard == InitDashboard /\ [][NextDashboard]_vars

(***************************************************************************)
(* Threshold configuration: set_thresholds and the API handler that calls   *)
(* it, interleaved with ingestion into the monitor.                         *)
(***************************************************************************)
\* The longest history ingested while the thresholds are being changed
MaxThresholdHistory == 2

\* set_thresholds(high, medium, low)
set_thresholds(self, high, medium, low) ==
    [self |-> [self EXCEPT !.threshold_high = high,
                           !.threshold_medium = medium,
                           !.threshold_low = low],
     status |-> "ok"]

\* update_thresholds of the API, with the predictor initialized: a key that
\* is missing from the payload takes the default value, not the current one
update_thresholds(pred, data) ==
    LET high   == Get(data, "high", 80)
        medium == Get(data, "medium", 50)
        low    == Get(data, "low", 30)
    IN  [predictor |-> set_thresholds(pred, high, medium, low).self,
         code |-> 200,
         body |-> [thresholds |-> [high |-> high, medium |-> medium,
                                   low |-> low]]]

\* the JSON payloads tried: nothing, stricter bands, a laxer HIGH band
ThresholdPayloads ==
    {EmptyDict, [high |-> 95, medium |-> 70], [high |-> 60]}

\* what the model answers while the thresholds move: a failure, and threats
\* and a benign row whose confidences change band with the payloads above
ThresholdClassifierOutcomes ==
    {[raises |-> TRUE, prediction |-> FALSE, confidence |-> 0],
     [raises |-> FALSE, prediction |-> TRUE, confidence |-> 65],
     [raises |-> FALSE, prediction |-> TRUE, confidence |-> 92],
     [raises |-> FALSE, prediction |-> FALSE, confidence |-> 92]}

InitThresholds ==
    /\ predictor = ThreatPredictor_init("loaded")
    /\ monitor = RealTimeThreatMonitor_init
    /\ agent = ThreatSummaryAgent_init
    /\ issued_ids = <<>>
    /\ threads = NoThreads
    /\ heap = NoHeap
    /\ input = EmptyDict
    /\ last = NoCall

UpdateThresholds ==
    /\ \E data \in ThresholdPayloads :
          LET r == update_thresholds(predictor, data) IN
          /\ predictor' = r.predictor
          /\ last' = [op |-> "update_thresholds", args |-> [data |-> data],
                      status |-> "ok", ret |-> r.body]
    /\ UNCHANGED <<monitor, agent, issued_ids, input, threads, heap>>

MonitorTraffic ==
    /\ Len(monitor.threat_history) < MaxThresholdHistory
    /\ \E data \in TrafficSamples, clf \in ThresholdClassifierOutcomes :
          LET r == process_traffic(monitor, predictor, data, clf, 0) IN
          /\ monitor' = r.self
          /\ issued_ids' =
                IF Len(r.self.alert_queue) > Len(monitor.alert_queue)
                THEN Append(issued_ids,
                            r.self.alert_queue[Len(r.self.alert_queue)].alert_id)
                ELSE issued_ids
          /\ last' = [op |-> "process_traffic",
                      args |-> [traffic_data |-> data, clf |-> clf],
                      status |-> r.status,
                      ret |-> IF r.status = "ok" THEN [result |-> r.ret]
                              ELSE [error |-> r.ret]]
    /\ UNCHANGED <<predictor, agent, input, threads, heap>>

NextThresholds == UpdateThresholds \/ MonitorTraffic

SpecThresholds == InitThresholds /\ [][NextThresholds]_vars

\* the band of confidence c under the thresholds held by pred
BandUnder(pred, c) ==
    IF c >= pred.threshold_high THEN "HIGH"
    ELSE IF c >= pred.threshold_medium THEN "MEDIUM"
    ELSE IF c >= pred.threshold_low THEN "LOW"
    ELSE "INFO"

IsPrefix(s, t) == Len(s) <= Len(t) /\ SubSeq(t, 1, Len(s)) = s

\* C16: a threshold change is not retroactive.  The change itself leaves the
\* history and the alert queue as they are; an ingest leaves every event and
\* every alert already stored as it is, and gives the new event (and its
\* alert) the band of its confidence under the thresholds in force at that
\* ingest.
C16_ThresholdChangeNotRetroactive ==
    [][/\ last'.op = "update_thresholds" => monitor' = monitor
       /\ (last'.op = "process_traffic" /\ last'.status = "ok") =>
             /\ IsPrefix(monitor.threat_history, monitor'.threat_history)
             /\ IsPrefix(monitor.alert_queue, monitor'.alert_queue)
             /\ Len(monitor'.threat_history) = Len(monitor.threat_history) + 1
             /\ LET event == monitor'.threat_history[Len(monitor'.threat_history)]
                IN  /\ event.severity = BandUnder(predictor, event.confidence)
                    /\ Len(monitor'.alert_queue) > Len(monitor.alert_queue) =>
                          monitor'.alert_queue[Len(monitor'.alert_queue)].severity
                             = event.severity]_vars

\* two stored events with the same confidence and different severities, the
\* thresholds having moved between their ingests
C16_Witness ==
    /\ last.op = "process_traffic" /\ last.status = "ok"
    /\ Len(monitor.threat_history) = 2
    /\ monitor.threat_history[1].confidence = 92
    /\ monitor.threat_history[2].confidence = 92
    /\ monitor.threat_history[1].severity = "HIGH"
    /\ monitor.threat_history[2].severity = "MEDIUM"
    /\ Len(monitor.alert_queue) = 2
    /\ monitor.alert_queue[1].severity = "HIGH"
    /\ monitor.alert_queue[2].severity = "MEDIUM"

(***************************************************************************)
(* The rule table of attack-type inference, checked under SpecInfer         *)
(***************************************************************************)
\* the record matches the flood rule as stated: a packet size below 100 and
\* protocol UDP or ICMP (an absent size reads as 0, an absent protocol as '')
SmallUdpOrIcmp(data) ==
    /\ Get(data, "packet_size", 0) < 100
    /\ Upper(Get(data, "protocol", "")) \in {"UDP", "ICMP"}

\* C25: for attributes with no SYN flag, a packet size below 100 and protocol
\* UDP or ICMP the inferred type is DDoS whatever the destination port (UDP,
\* size 50, port 80 is DDoS, not a web attack).
C25_SmallUdpIcmpIsDdos ==
    (last.op = "_infer_attack_type" /\ ~HasSyn(last.args.data)
        /\ "packet_size" \in DOMAIN last.args.data
        /\ SmallUdpOrIcmp(last.args.data))
    => /\ last.status = "ok"
       /\ AttackTypeOf(last.ret.attack_type) = "DDoS"

\* the type the destination-port table of the statement gives
PortTableType(port, size) ==
    IF port \in {3306, 5432, 1433, 27017} THEN "SqlInjection"
    ELSE IF port \in {80, 443, 8080, 8443}
    THEN (IF size > 5000 THEN "XSS" ELSE "WebAttack")
    ELSE IF port \in {22, 3389} THEN "BruteForce"
    ELSE IF port = 445 THEN "Ransomware"
    ELSE "Unknown"

\* C26: for attributes that match neither the port-scan rule (a SYN flag)
\* nor the flood rule, the inferred type follows the destination-port table:
\* 3306, 5432, 1433, 27017 SqlInjection; 80, 443, 8080, 8443 XSS above 5000
\* bytes and WebAttack otherwise; 22 and 3389 BruteForce; 445 Ransomware;
\* every other port Unknown.
C26_DestinationPortTable ==
    (last.op = "_infer_attack_type" /\ ~HasSyn(last.args.data)
        /\ ~SmallUdpOrIcmp(last.args.data))
    => /\ last.status = "ok"
       /\ AttackTypeOf(last.ret.attack_type)
            = PortTableType(Get(last.args.data, "destination_port", 0),
                            Get(last.args.data, "packet_size", 0))

\* a line is the manual-review caveat when its text says so; none of the
\* lines of _generate_recommendations does
IsManualReviewCaveat(line) ==
    line.text \in {"Manual review recommended - lower-confidence detection",
                   "manual review recommended"}

\* C27: for a threat the recommendation list ends with the manual-review
\* caveat if and only if the confidence is below 0.7, at every severity.
C27_CaveatIffLowConfidence ==
    (last.op = "summarize_single_event" /\ last.status = "ok"
        /\ Get(last.args.prediction, "is_threat", FALSE))
    => LET recs == last.ret.summary["recommendations"]
           confidence == Get(last.args.prediction, "confidence", 0)
       IN  /\ recs # <<>>
           /\ IsManualReviewCaveat(recs[Len(recs)]) <=> confidence < 70
           /\ confidence >= 70 =>
                 \A i \in 1..Len(recs) : ~IsManualReviewCaveat(recs[i])

\* the positions of the HIGH events of a list, and the rank of position i
\* among them
HighPositions(events) ==
    {i \in 1..Len(events) : Get(events[i], "severity", "None") = "HIGH"}

HighRank(events, i) == Cardinality({j \in HighPositions(events) : j <= i})

\* C28: critical_alerts holds one summary for each event of severity HIGH and
\* none for another event, in the order of those events in the list, so its
\* length is the HIGH count.
C28_CriticalAlertsAreHighEventsInOrder ==
    (last.op = "summarize_batch_events" /\ last.status = "ok")
    => LET events == last.args.predictions
           alerts == last.ret.batch.critical_alerts
       IN  /\ Len(alerts) = Cardinality(HighPositions(events))
           /\ Len(alerts) = last.ret.batch.severity_breakdown["HIGH"]
           /\ \A i \in HighPositions(events) :
                 alerts[HighRank(events, i)]
                    = summarize_single_event(SecurityEventSummarizer_init,
                                             events[i]).ret

C28_Witness ==
    /\ last.op = "summarize_batch_events" /\ last.status = "ok"
    /\ Len(last.args.predictions) = 3
    /\ last.args.predictions[1].severity = "HIGH"
    /\ last.args.predictions[1].is_threat
    /\ last.args.predictions[2].severity = "LOW"
    /\ last.args.predictions[3].severity = "HIGH"
    /\ ~last.args.predictions[3].is_threat
    /\ Len(last.ret.batch.critical_alerts) = 2
    /\ last.ret.batch.critical_alerts[2]["attack_type"] = "N/A - Benign Traffic"


(***************************************************************************)
(* C24: history is append-only -- in every run of the system each later    *)
(* state's threat_history has each earlier state's threat_history as a     *)
(* prefix; no operation of the monitor, the API or the dashboard removes,  *)
(* replaces or reorders events already in history.  Checked step by step   *)
(* over the dashboard's handlers: a prefix at every step is a prefix over  *)
(* the whole run.                                                          *)
(***************************************************************************)
C24_HistoryAppendOnly ==
    [][IsPrefix(monitor.threat_history, monitor'.threat_history)]_vars

\* the five handlers of the dashboard that only answer a question
DashboardQueries ==
    {"get_dashboard_status", "get_live_threats", "get_dashboard_alerts",
     "generate_dashboard_report", "get_detailed_statistics"}

(***************************************************************************)
(* C29: the read-only dashboard queries (status, live threats, alerts,     *)
(* report, statistics) change no stored state -- after any of them         *)
(* monitor.threat_history, monitor.alert_queue and the agent's             *)
(* event_history are the same as before.                                   *)
(***************************************************************************)
C29_QueriesChangeNothing ==
    [][last'.op \in DashboardQueries =>
          /\ monitor'.threat_history = monitor.threat_history
          /\ monitor'.alert_queue = monitor.alert_queue
          /\ agent'.event_history = agent.event_history]_vars


(***************************************************************************)
(* Requests served at the same time.  Both applications are started with   *)
(* app.run(), which serves every request in a thread of its own, and the   *)
(* monitor is one object shared by all of them with no lock around it.     *)
(* A thread takes one step at a time; a step is one operation on a shared  *)
(* list or attribute (len, one iteration of a loop over the list, append,  *)
(* an assignment to the attribute), which the interpreter runs as a whole. *)
(* heap.objects holds the list objects that exist, by identity;            *)
(* heap.alert_queue and heap.threat_history say which of them the          *)
(* monitor's attributes hold, and the variable monitor shows their         *)
(* contents.  threads[t] is the request thread t serves, where it is in    *)
(* it, and its local variables.                                            *)
(***************************************************************************)
MaxThreads == 2

Threads == 1..MaxThreads

Idle == [request |-> "none", pc |-> "idle", locals |-> EmptyDict]

\* a thread whose request is over keeps what the request returned
Done(request, returned) == [request |-> request, pc |-> "done", locals |-> returned]

Raised(request) == [request |-> request, pc |-> "raised", locals |-> EmptyDict]

\* RealTimeThreatMonitor.__init__: two new lists
InitHeap == [objects |-> <<<<>>, <<>>>>, alert_queue |-> 1, threat_history |-> 2]

\* the monitor as its attributes show it
Deref(h) ==
    [alert_queue    |-> h.objects[h.alert_queue],
     threat_history |-> h.objects[h.threat_history]]

\* list.append on the list object ref
ListAppend(h, ref, item) ==
    [h EXCEPT !.objects = [@ EXCEPT ![ref] = Append(@, item)]]

\* self.alert_queue = []: a new list object, held by the attribute from now on
AssignNewAlertQueue(h) ==
    [h EXCEPT !.objects = Append(@, <<>>), !.alert_queue = Len(h.objects) + 1]

\* monitor.threat_history = []
AssignNewThreatHistory(h) ==
    [h EXCEPT !.objects = Append(@, <<>>), !.threat_history = Len(h.objects) + 1]

\* the threads are started in the order of their numbers, and each serves
\* one request
CanStart(t) ==
    /\ threads[t].pc = "idle"
    /\ \A u \in Threads : u < t => threads[u].pc # "idle"

\* datetime.now() of a request: later requests read a later clock
Clock == Cardinality({u \in Threads : threads[u].pc # "idle"})

ThreadClassifierOutcomes ==
    {[raises |-> TRUE, prediction |-> FALSE, confidence |-> 0],
     [raises |-> FALSE, prediction |-> TRUE, confidence |-> 92],
     [raises |-> FALSE, prediction |-> FALSE, confidence |-> 15]}

InitThreads ==
    /\ predictor = ThreatPredictor_init("model.pkl")
    /\ monitor = RealTimeThreatMonitor_init
    /\ agent = ThreatSummaryAgent_init
    /\ issued_ids = <<>>
    /\ input = EmptyDict
    /\ last = NoCall
    /\ threads = [t \in Threads |-> Idle]
    /\ heap = InitHeap

\* line 260 of process_traffic: the prediction, which touches no list
StartProcessTraffic(t) ==
    /\ CanStart(t)
    /\ \E data \in TrafficSamples, clf \in ThreadClassifierOutcomes :
          LET p == predict_single(predictor, data, clf, Clock) IN
          IF p.status = "raise"
          THEN /\ threads' = [threads EXCEPT ![t] = Raised("process_traffic")]
               /\ last' = [op |-> "process_traffic",
                           args |-> [traffic_data |-> data, clf |-> clf],
                           status |-> "raise", ret |-> [error |-> p.ret]]
          ELSE /\ threads' = [threads EXCEPT ![t] =
                     [request |-> "process_traffic", pc |-> "load_history",
                      locals |-> [traffic_data |-> data, clf |-> clf,
                                  result |-> p.ret]]]
               /\ last' = last
    /\ UNCHANGED <<predictor, monitor, agent, issued_ids, input, heap>>

\* line 263, self.threat_history: the list the attribute holds now
LoadThreatHistory(t) ==
    /\ threads[t].request = "process_traffic"
    /\ threads[t].pc = "load_history"
    /\ threads' = [threads EXCEPT ![t] =
          [request |-> "process_traffic", pc |-> "append_history",
           locals |-> [traffic_data |-> threads[t].locals.traffic_data,
                       clf |-> threads[t].locals.clf,
                       result |-> threads[t].locals.result,
                       ref |-> heap.threat_history]]]
    /\ UNCHANGED <<predictor, monitor, agent, issued_ids, input, last, heap>>

\* line 263, .append(result), on the list that was loaded
process_traffic_append_history_alerting(h, ref, result) ==
    IF result.is_threat /\ result.severity \in {"HIGH", "MEDIUM"}
    THEN ListAppend(h, ref, result)
    ELSE h

process_traffic_append_history(h, ref, result) == ListAppend(h, ref, result)

\* the record of a call of process_traffic that returns its result
ProcessTrafficReturned(t) ==
    [op |-> "process_traffic",
     args |-> [traffic_data |-> threads[t].locals.traffic_data,
               clf |-> threads[t].locals.clf],
     status |-> "ok",
     ret |-> [result |-> threads[t].locals.result]]

\* lines 263-266: the append, then the test of the result; a result that
\* raises no alert is returned at once
AppendThreatHistory(t) ==
    /\ threads[t].request = "process_traffic"
    /\ threads[t].pc = "append_history"
    /\ heap' = process_traffic_append_history(heap, threads[t].locals.ref,
                                              threads[t].locals.result)
    /\ monitor' = Deref(heap')
    /\ IF threads[t].locals.result.is_threat
          /\ threads[t].locals.result.severity \in {"HIGH", "MEDIUM"}
       THEN /\ threads' = [threads EXCEPT ![t].pc = "make_alert"]
            /\ last' = last
       ELSE /\ threads' = [threads EXCEPT ![t] = Done("process_traffic",
                        [result |-> threads[t].locals.result])]
            /\ last' = ProcessTrafficReturned(t)
    /\ UNCHANGED <<predictor, agent, issued_ids, input>>

\* lines 267-275: the alert, with len(self.alert_queue) + 1 as its id
BuildAlert(t) ==
    /\ threads[t].request = "process_traffic"
    /\ threads[t].pc = "make_alert"
    /\ LET alert == MakeAlert(Deref(heap), threads[t].locals.result,
                              threads[t].locals.traffic_data) IN
          /\ threads' = [threads EXCEPT ![t] =
                [request |-> "process_traffic", pc |-> "load_queue",
                 locals |-> [traffic_data |-> threads[t].locals.traffic_data,
                             clf |-> threads[t].locals.clf,
                             result |-> threads[t].locals.result,
                             alert |-> alert]]]
          /\ issued_ids' = Append(issued_ids, alert.alert_id)
    /\ UNCHANGED <<predictor, monitor, agent, input, last, heap>>

\* line 276, self.alert_queue: the list the attribute holds now
LoadAlertQueue(t) ==
    /\ threads[t].request = "process_traffic"
    /\ threads[t].pc = "load_queue"
    /\ threads' = [threads EXCEPT ![t] =
          [request |-> "process_traffic", pc |-> "append_alert",
           locals |-> [traffic_data |-> threads[t].locals.traffic_data,
                       clf |-> threads[t].locals.clf,
                       result |-> threads[t].locals.result,
                       alert |-> threads[t].locals.alert,
                       ref |-> heap.alert_queue]]]
    /\ UNCHANGED <<predictor, monitor, agent, issued_ids, input, last, heap>>

\* lines 276-279: .append(alert) on the list that was loaded, and the return
AppendAlert(t) ==
    /\ threads[t].request = "process_traffic"
    /\ threads[t].pc = "append_alert"
    /\ heap' = ListAppend(heap, threads[t].locals.ref, threads[t].locals.alert)
    /\ monitor' = Deref(heap')
    /\ threads' = [threads EXCEPT ![t] = Done("process_traffic",
                        [result |-> threads[t].locals.result])]
    /\ last' = ProcessTrafficReturned(t)
    /\ UNCHANGED <<predictor, agent, issued_ids, input>>

\* clear_alerts, as the request /api/alerts/clear runs it
ClearAlertsRequest(t) ==
    /\ CanStart(t)
    /\ heap' = AssignNewAlertQueue(heap)
    /\ monitor' = Deref(heap')
    /\ threads' = [threads EXCEPT ![t] = Done("clear_alerts", EmptyDict)]
    /\ last' = [op |-> "clear_alerts", args |-> EmptyDict, status |-> "ok",
                ret |-> EmptyDict]
    /\ UNCHANGED <<predictor, agent, issued_ids, input>>

\* clear_dashboard_data, line 212: monitor.clear_alerts()
ResetClearAlerts(t) ==
    /\ CanStart(t)
    /\ heap' = AssignNewAlertQueue(heap)
    /\ monitor' = Deref(heap')
    /\ threads' = [threads EXCEPT ![t] =
          [request |-> "clear_dashboard_data", pc |-> "assign_history",
           locals |-> EmptyDict]]
    /\ UNCHANGED <<predictor, agent, issued_ids, input, last>>

\* clear_dashboard_data, line 213: monitor.threat_history = []
ResetThreatHistory(t) ==
    /\ threads[t].request = "clear_dashboard_data"
    /\ threads[t].pc = "assign_history"
    /\ heap' = AssignNewThreatHistory(heap)
    /\ monitor' = Deref(heap')
    /\ threads' = [threads EXCEPT ![t].pc = "clear_history"]
    /\ UNCHANGED <<predictor, agent, issued_ids, input, last>>

\* clear_dashboard_data, lines 214-219: ai_agent.clear_history() and the
\* response
ResetAgentHistory(t) ==
    /\ threads[t].request = "clear_dashboard_data"
    /\ threads[t].pc = "clear_history"
    /\ agent' = clear_history(agent).self
    /\ threads' = [threads EXCEPT ![t] = Done("clear_dashboard_data", EmptyDict)]
    /\ last' = [op |-> "clear_dashboard_data", args |-> EmptyDict,
                status |-> "ok",
                ret |-> [message |-> "Dashboard data cleared successfully"]]
    /\ UNCHANGED <<predictor, monitor, issued_ids, input, heap>>

\* get_threat_statistics, line 305: self.threat_history, the list handed to
\* analyze_threats as predictions
StartStatistics(t) ==
    /\ CanStart(t)
    /\ threads' = [threads EXCEPT ![t] =
          [request |-> "get_threat_statistics", pc |-> "len",
           locals |-> [predictions |-> heap.threat_history]]]
    /\ UNCHANGED <<predictor, monitor, agent, issued_ids, input, last, heap>>

\* analyze_threats, line 207: total = len(predictions)
StatisticsTotal(t) ==
    /\ threads[t].request = "get_threat_statistics"
    /\ threads[t].pc = "len"
    /\ threads' = [threads EXCEPT ![t] =
          [request |-> "get_threat_statistics", pc |-> "threats",
           locals |-> [predictions |-> threads[t].locals.predictions,
                       total |-> Len(heap.objects[threads[t].locals.predictions]),
                       i |-> 0,
                       threat_count |-> 0,
                       severity_counts |->
                           [s \in {"HIGH", "MEDIUM", "LOW", "INFO"} |-> 0],
                       confidences |-> <<>>]]]
    /\ UNCHANGED <<predictor, monitor, agent, issued_ids, input, last, heap>>

\* one round of a loop over the list predictions at position i: the loop is
\* over when the list, as it is now, has no element there
LoopOver(t) == threads[t].locals.i >= Len(heap.objects[threads[t].locals.predictions])

LoopItem(t) == heap.objects[threads[t].locals.predictions][threads[t].locals.i + 1]

\* line 208: threats = [p for p in predictions if p['is_threat']], and
\* line 209 when the loop is over
StatisticsThreats(t) ==
    /\ threads[t].request = "get_threat_statistics"
    /\ threads[t].pc = "threats"
    /\ IF LoopOver(t)
       THEN threads' = [threads EXCEPT ![t].pc = "severity", ![t].locals.i = 0]
       ELSE threads' = [threads EXCEPT
                ![t].locals.i = @ + 1,
                ![t].locals.threat_count =
                    IF LoopItem(t).is_threat THEN @ + 1 ELSE @]
    /\ UNCHANGED <<predictor, monitor, agent, issued_ids, input, last, heap>>

\* lines 212-214: for pred in predictions: severity_counts[...] += 1
StatisticsSeverity(t) ==
    /\ threads[t].request = "get_threat_statistics"
    /\ threads[t].pc = "severity"
    /\ IF LoopOver(t)
       THEN threads' = [threads EXCEPT ![t].pc = "confidence", ![t].locals.i = 0]
       ELSE threads' = [threads EXCEPT
                ![t].locals.i = @ + 1,
                ![t].locals.severity_counts[LoopItem(t).severity] = @ + 1]
    /\ UNCHANGED <<predictor, monitor, agent, issued_ids, input, last, heap>>

\* lines 220-233: the summary made of what the passes counted
StatisticsSummary(loc) ==
    [total_analyzed        |-> loc.total,
     threat_count          |-> loc.threat_count,
     benign_count          |-> loc.total - loc.threat_count,
     threat_rate           |-> IF loc.total > 0
                               THEN [num |-> loc.threat_count, den |-> loc.total]
                               ELSE [num |-> 0, den |-> 1],
     average_confidence    |-> [num |-> SumConfidence(loc.confidences),
                                den |-> Len(loc.confidences)],
     severity_distribution |-> loc.severity_counts,
     high_severity_threats |-> loc.severity_counts["HIGH"]]

\* line 217: np.mean([p['confidence'] for p in predictions]); when the loop
\* is over, the summary is built and returned
StatisticsConfidence(t) ==
    /\ threads[t].request = "get_threat_statistics"
    /\ threads[t].pc = "confidence"
    /\ IF LoopOver(t)
       THEN /\ threads' = [threads EXCEPT ![t] = Done("get_threat_statistics", EmptyDict)]
            /\ last' = [op |-> "get_threat_statistics", args |-> EmptyDict,
                        status |-> "ok",
                        ret |-> [summary |-> StatisticsSummary(threads[t].locals)]]
       ELSE /\ threads' = [threads EXCEPT
                ![t].locals.i = @ + 1,
                ![t].locals.confidences =
                    Append(@, [confidence |-> LoopItem(t).confidence])]
            /\ last' = last
    /\ UNCHANGED <<predictor, monitor, agent, issued_ids, input, heap>>

NextThreads ==
    \E t \in Threads :
        \/ StartProcessTraffic(t)
        \/ LoadThreatHistory(t)
        \/ AppendThreatHistory(t)
        \/ BuildAlert(t)
        \/ LoadAlertQueue(t)
        \/ AppendAlert(t)
        \/ ClearAlertsRequest(t)
        \/ ResetClearAlerts(t)
        \/ ResetThreatHistory(t)
        \/ ResetAgentHistory(t)
        \/ StartStatistics(t)
        \/ StatisticsTotal(t)
        \/ StatisticsThreats(t)
        \/ StatisticsSeverity(t)
        \/ StatisticsConfidence(t)

SpecThreads == InitThreads /\ [][NextThreads]_vars

\* no request has replaced the list of threat_history so far
NoResetYet == heap.threat_history = InitHeap.threat_history

\* the calls of process_traffic that are past their append to the history,
\* returned or not
Ingested ==
    {t \in Threads :
        /\ threads[t].request = "process_traffic"
        /\ threads[t].pc \in {"make_alert", "load_queue", "append_alert", "done"}}

Occurrences(seq, x) == Cardinality({i \in 1..Len(seq) : seq[i] = x})

(***************************************************************************)
(* C23: every process_traffic call that returns successfully has appended  *)
(* exactly one event to threat_history, at the end of the log -- with no   *)
(* reset in between, after N ingests, sequential or concurrent, the        *)
(* history holds exactly N events, the result of each call once, and the   *)
(* step that appends puts the result behind what was there.                *)
(***************************************************************************)
C23_OneEventPerIngest ==
    /\ [](NoResetYet =>
            /\ Len(monitor.threat_history) = Cardinality(Ingested)
            /\ \A t \in Ingested :
                  Occurrences(monitor.threat_history, threads[t].locals.result) = 1)
    /\ [][\A t \in Threads :
            (/\ NoResetYet
             /\ threads[t].pc = "append_history"
             /\ threads'[t].pc # "append_history")
            => monitor'.threat_history =
                  Append(monitor.threat_history, threads[t].locals.result)]_vars

\* two calls in flight at once: the second one started has appended and
\* returned while the first is still about to queue its alert
C23_Witness ==
    /\ NoResetYet
    /\ \A t \in {1, 2} : threads[t].request = "process_traffic"
    /\ threads[1].pc = "append_alert"
    /\ threads[2].pc = "done"
    /\ Len(monitor.threat_history) = 2
    /\ monitor.threat_history[1] = threads[2].locals.result

(***************************************************************************)
(* C21: when several callers run process_traffic concurrently on one       *)
(* monitor, with or without a concurrent clear_alerts, alert ids are       *)
(* assigned monotonically in the order the appends are serialized -- along *)
(* the queue the ids increase strictly, so no two alerts carry the same    *)
(* id.                                                                     *)
(***************************************************************************)
C21_AlertIdsIncreaseAlongQueue ==
    \A i, j \in DOMAIN monitor.alert_queue :
        i < j => monitor.alert_queue[i].alert_id < monitor.alert_queue[j].alert_id

\* the sum of the four severity counts of a summary
SeveritySum(summary) ==
    summary.severity_distribution["HIGH"] + summary.severity_distribution["MEDIUM"]
    + summary.severity_distribution["LOW"] + summary.severity_distribution["INFO"]

(***************************************************************************)
(* C22: get_threat_statistics observes a consistent snapshot even while    *)
(* process_traffic runs concurrently -- the statistics it returns satisfy  *)
(* 0 <= threat_count <= total, benign_count >= 0 and sum of the severity   *)
(* counts = total, as the aggregate of one prefix of the history does.     *)
(***************************************************************************)
C22_StatisticsOfOneSnapshot ==
    last.op = "get_threat_statistics" =>
        /\ 0 <= last.ret.summary.threat_count
        /\ last.ret.summary.threat_count <= last.ret.summary.total_analyzed
        /\ last.ret.summary.benign_count >= 0
        /\ SeveritySum(last.ret.summary) = last.ret.summary.total_analyzed

(***************************************************************************)
(* C30: when the dashboard reset (clear_alerts, then threat_history = [])  *)
(* runs concurrently with process_traffic, every reachable state has each  *)
(* queued alert matched by its event in threat_history.                    *)
(***************************************************************************)
C30_QueuedAlertsHaveTheirEvent ==
    \A i \in DOMAIN monitor.alert_queue :
        \E j \in DOMAIN monitor.threat_history :
            AlertOf(monitor.alert_queue[i], monitor.threat_history[j])

====
